---- MODULE Spec2Model ----
(***************************************************************************)
(* A model of the VPbot control loop: the TaskScheduler, the               *)
(* MonitorManager, the ControlClient signal flags, the GameProcessManager  *)
(* poll and the CoreEngine main loop that arbitrates between them.         *)
(*                                                                         *)
(* Conventions.  Python's None is the model value None (an index: 0).      *)
(* Python lists are sequences, so list index i is sequence index i + 1.    *)
(* time.time() is the variable now; it starts at StartClock, later than    *)
(* every interval, as the epoch clock is in the program (a timestamp of 0  *)
(* is "never").  A threading.Lock is a variable naming its holder.         *)
(***************************************************************************)
EXTENDS Integers, Sequences, FiniteSets, TLC

\* ------------------------------------------------------------------ bounds
MaxTasks == 2
MaxMonitors == 2
ClockSpan == 2
MaxFailures == 1
MaxPending == 2
MapLen == 4
MaxResults == 3

\* --------------------------------------------------------- program values
None == 0
NoValue == "<None>"      \* None where the value is a string
TaskIds == {"process_positions", "check_overtime"}
Priorities == {70, 80}
Intervals == {0, 2}
MaxInterval == CHOOSE m \in Intervals : \A i \in Intervals : i <= m
StartClock == MaxInterval + 1
MaxClock == StartClock + ClockSpan

VARIABLES
    \* TaskScheduler
    tasks,                 \* TaskScheduler.tasks: the Task objects, in list order
    current_task_index,    \* TaskScheduler.current_task_index (None or an index)
    sched_is_paused,       \* TaskScheduler.is_paused
    sched_lock,            \* TaskScheduler.lock: "free" or the holding thread
    registered,            \* history: task ids in the order add_task accepted them
    \* MonitorManager
    global_monitors,       \* MonitorManager.global_monitors, in list order
    mon_is_paused,         \* MonitorManager.is_paused
    mon_lock,              \* MonitorManager.lock: "free" or the holding thread
    handling,              \* the monitor whose handler is being called (NoValue: none)
    sweep_result,          \* what the last check_global_monitors call returned
    handler_outcome,       \* history: how the last handler call ended
    mon_registered,        \* history: monitor names in the order they were accepted
    \* ImageDetector
    screen_image,          \* _main_loop's local screen_image, the frame handed to the
                           \* sweep: per template, what its detector reports on it
                           \* (NoFrame outside the sweep, where the local is dead)
    last_screen_image,     \* ImageDetector.last_screen_image (None or a frame)
    last_full_screen_time, \* ImageDetector.last_full_screen_time
    screen_refresh_interval, \* config['image_detection']['screen_refresh_interval']
    image_call,            \* history: the last call made on the ImageDetector alone
    \* ControlClient
    events,                \* the threading.Event flags, by name
    position_control,      \* ControlClient.position_control
    remove_job_info,       \* ControlClient.remove_job_info
    chat_info,             \* ControlClient.chat_info
    connected,             \* ControlClient.connected
    authenticated,         \* ControlClient.authenticated
    command_result,        \* history: the last _send_command_result call
    \* HotkeySystem, StatusUI
    operator_pause,        \* history: toggle_scheduler paused the scheduler and no
                           \* operator or remote request has resumed it since
    ui_pc,                 \* the status surface's restart_game thread: "idle",
                           \* "closed" (close_game done) or "starting" (launched,
                           \* waiting for the process)
    launch_flip,           \* history: flips with every subprocess.Popen of the game
    cancel_request,        \* the call another thread has made and that waits for
                           \* TaskScheduler.lock (NoCancel when there is none)
    action_result,         \* history: how the last task.action() call ended
    polled,                \* history: what this tick's check_game_status returned
    toggler,               \* the thread inside ControlClient._toggle_position: the
                           \* statement it is at and its arguments
    checker,               \* the thread inside ControlClient.check_position_control:
                           \* the statement it is at, its locals, what it returned
    duty_log,              \* history: the pairs published, and the last one owed
    forcer,                \* the thread inside MonitorManager.force_check_all: the
                           \* statement it is at, original_pause_state, the frame
                           \* it was given, and how its sweep ended
    is_detection_paused,   \* HotkeySystem.is_detection_paused
    pause_requested,       \* history: what the last completed call of
                           \* pause_global_monitoring (TRUE) or
                           \* resume_global_monitoring (FALSE) asked for
    \* GameProcessManager
    game,                  \* current_status, process_id, start_time
    max_runtime,           \* config['game']['max_runtime']
    window_title,          \* config['game']['window_title'] ("" when not configured)
    poll_facts,            \* history: what the operating system answered to the last poll
    poll_result,           \* history: what the last check_game_status call returned
    game_call,             \* history: the last call made on the GameProcessManager alone
    \* CoreEngine
    is_running,            \* CoreEngine.is_running
    is_paused,             \* CoreEngine.is_paused
    control_client,        \* whether CoreEngine.control_client is set
    stop_cause,            \* history: what cleared is_running ("none", "restart", "shutdown")
    tick,                  \* history: what the orchestrator did in the current tick
    \* the clock and the orchestration thread
    now,                   \* time.time()
    pc                     \* position of the orchestration thread

schedVars == <<tasks, current_task_index, sched_is_paused, sched_lock, registered>>

monVars == <<global_monitors, mon_is_paused, mon_lock, handling, sweep_result,
             handler_outcome, mon_registered>>

clientVars == <<events, position_control, remove_job_info, chat_info>>

gameVars == <<game, max_runtime, window_title, poll_facts, poll_result, game_call>>

engineVars == <<is_running, is_paused, control_client, stop_cause, tick>>

detectorVars == <<last_screen_image, last_full_screen_time, screen_refresh_interval,
                  image_call>>

linkVars == <<connected, authenticated, command_result>>

\* State added for single claims; the harnesses before them leave it alone.
fineVars ==
    <<toggler, checker, duty_log, forcer, is_detection_paused, pause_requested>>

auxVars == <<action_result, polled, fineVars>>

threadVars == <<operator_pause, ui_pc, launch_flip, cancel_request, auxVars>>

vars == <<schedVars, monVars, screen_image, detectorVars, linkVars, threadVars, clientVars,
          gameVars,
          engineVars, now, pc>>

\* ================================================================ Task
\* Task.__init__: self.max_retries
max_retries == 3

\* Task.__init__: the fields of a new Task.
NewTask(id, priority, interval_seconds) ==
    [id |-> id, priority |-> priority, interval_seconds |-> interval_seconds,
     last_execution_time |-> 0, is_running |-> FALSE,
     consecutive_failures |-> 0, paused |-> FALSE]

\* Task.should_run
should_run(task, t) ==
    IF task.is_running \/ task.paused
    THEN FALSE
    ELSE (t - task.last_execution_time) >= task.interval_seconds

\* list.sort(key=lambda t: t.priority, reverse=True): a stable sort, so elements
\* of equal priority keep their relative order.  Insertion of each element, in
\* list order, behind every element whose priority is not lower.
\* A sort that is not stable: the element goes in front of its equals.
RECURSIVE InsertByPriorityUnstable(_, _)
InsertByPriorityUnstable(sorted, x) ==
    IF sorted = <<>> THEN <<x>>
    ELSE IF Head(sorted).priority > x.priority
         THEN <<Head(sorted)>> \o InsertByPriorityUnstable(Tail(sorted), x)
         ELSE <<x>> \o sorted

RECURSIVE InsertByPriority(_, _)
InsertByPriority(sorted, x) ==
    IF sorted = <<>> THEN <<x>>
    ELSE IF Head(sorted).priority >= x.priority
         THEN <<Head(sorted)>> \o InsertByPriority(Tail(sorted), x)
         ELSE <<x>> \o sorted

RECURSIVE SortByPriorityDesc(_)
SortByPriorityDesc(s) ==
    IF s = <<>> THEN <<>>
    ELSE InsertByPriority(SortByPriorityDesc(SubSeq(s, 1, Len(s) - 1)), s[Len(s)])

\* s with the element at index i popped.
Pop(s, i) == SubSeq(s, 1, i - 1) \o SubSeq(s, i + 1, Len(s))

\* Index of the first element of s with the given id, or None.
RECURSIVE IndexOfId(_, _, _)
IndexOfId(s, id, i) ==
    IF i > Len(s) THEN None
    ELSE IF s[i].id = id THEN i ELSE IndexOfId(s, id, i + 1)

\* ======================================================== TaskScheduler
\* TaskScheduler.get_current_task: the index of the current task, None when the
\* slot is empty or out of range.
get_current_task ==
    IF current_task_index # None /\ current_task_index <= Len(tasks)
    THEN current_task_index ELSE None

\* TaskScheduler._select_next_task: the scan for the first task that should run.
RECURSIVE FirstShouldRun(_, _, _)
FirstShouldRun(ts, t, i) ==
    IF i > Len(ts) THEN None
    ELSE IF should_run(ts[i], t) THEN i ELSE FirstShouldRun(ts, t, i + 1)

\* A selection without the return after the first hit: every task that should
\* run is started.
SelectedTasksAll(ts, t) ==
    [i \in 1..Len(ts) |->
        IF should_run(ts[i], t)
        THEN [ts[i] EXCEPT !.is_running = TRUE, !.last_execution_time = t]
        ELSE ts[i]]

\* TaskScheduler._select_next_task: the task list after the selection.
SelectedTasks(ts, t) ==
    LET i == FirstShouldRun(ts, t, 1) IN
    IF i = None THEN ts
    ELSE [ts EXCEPT ![i].is_running = TRUE, ![i].last_execution_time = t]

\* TaskScheduler._select_next_task: the current slot after the selection.
SelectedIndex(ts, t) == FirstShouldRun(ts, t, 1)

\* TaskScheduler.execute_current_task_step, the unlocked pause test.
StepEntry(ret) ==
    /\ pc = "step"
    /\ pc' = IF sched_is_paused THEN ret ELSE "step_lock"
    /\ UNCHANGED schedVars

\* TaskScheduler.execute_current_task_step, from taking the lock to the call of
\* the task's action (or to the return when there is nothing to execute).
StepLocked(ret) ==
    /\ pc = "step_lock"
    /\ sched_lock = "free"
    /\ LET ts  == IF current_task_index = None THEN SelectedTasks(tasks, now) ELSE tasks
           idx == IF current_task_index = None THEN SelectedIndex(tasks, now)
                  ELSE current_task_index
           cur == IF idx # None /\ idx <= Len(ts) THEN idx ELSE None
       IN /\ tasks' = ts
          /\ current_task_index' = idx
          /\ IF cur # None /\ ts[cur].is_running
             THEN pc' = "action" /\ sched_lock' = "orchestrator"
             ELSE pc' = ret /\ sched_lock' = "free"
    /\ UNCHANGED <<sched_is_paused, registered>>

\* An _execute_task whose except branch does not clear the running flag.
ExecutedTasksStillRunning(ts, i, result) ==
    IF result = "ok"
    THEN [ts EXCEPT ![i].is_running = FALSE, ![i].consecutive_failures = 0]
    ELSE [ts EXCEPT ![i].is_running = (result = "raise"),
                    ![i].consecutive_failures = ts[i].consecutive_failures + 1]

\* An _execute_task whose except branch does not count the exception as a failure.
ExecutedTasksForgiving(ts, i, result) ==
    IF result = "ok"
    THEN [ts EXCEPT ![i].is_running = FALSE, ![i].consecutive_failures = 0]
    ELSE IF result = "fail"
    THEN [ts EXCEPT ![i].is_running = FALSE,
                    ![i].consecutive_failures = ts[i].consecutive_failures + 1]
    ELSE [ts EXCEPT ![i].is_running = FALSE]

\* An _execute_task that switches a task off once it has failed max_retries
\* times in a row.
ExecutedTasksDisabling(ts, i, result) ==
    IF result = "ok"
    THEN [ts EXCEPT ![i].is_running = FALSE, ![i].consecutive_failures = 0]
    ELSE [ts EXCEPT ![i].is_running = FALSE,
                    ![i].consecutive_failures = ts[i].consecutive_failures + 1,
                    ![i].paused = ts[i].consecutive_failures + 1 >= max_retries]

\* TaskScheduler._execute_task: the task list once task.action() has come back
\* with result "ok" (truthy), "fail" (falsy) or "raise" (an Exception).
ExecutedTasks(ts, i, result) ==
    IF result = "ok"
    THEN [ts EXCEPT ![i].is_running = FALSE, ![i].consecutive_failures = 0]
    ELSE [ts EXCEPT ![i].is_running = FALSE,
                    ![i].consecutive_failures = ts[i].consecutive_failures + 1]

\* TaskScheduler._execute_task, then the release of the lock.  The failure
\* counter is followed up to cap.
execute_task(result, ret, cap) ==
    /\ pc = "action"
    /\ result # "ok" => tasks[current_task_index].consecutive_failures < cap
    /\ tasks' = ExecutedTasks(tasks, current_task_index, result)
    /\ current_task_index' = None
    /\ sched_lock' = "free"
    /\ pc' = ret
    /\ UNCHANGED <<sched_is_paused, registered>>

\* The same for whatever task.action() does: it returns a truthy value ("ok"), a
\* falsy one ("fail") or raises an Exception ("raise").
ActionResults == {"ok", "fail", "raise"}
StepActionReturns(ret, cap) ==
    \E result \in ActionResults : execute_task(result, ret, cap)

\* TaskScheduler.add_task
add_task(id, priority, interval_seconds) ==
    /\ sched_lock = "free"
    /\ IF IndexOfId(tasks, id, 1) # None
       THEN UNCHANGED <<tasks, registered>>
       ELSE /\ Len(tasks) < MaxTasks
            /\ tasks' = SortByPriorityDesc(
                            Append(tasks, NewTask(id, priority, interval_seconds)))
            /\ registered' = Append(registered, id)
    /\ UNCHANGED <<current_task_index, sched_is_paused, sched_lock>>

\* TaskScheduler.remove_task
remove_task(task_id) ==
    /\ sched_lock = "free"
    /\ LET i == IndexOfId(tasks, task_id, 1) IN
       IF i = None
       THEN UNCHANGED <<tasks, current_task_index, registered>>
       ELSE /\ tasks' = Pop(tasks, i)
            /\ current_task_index' =
                   IF current_task_index # None /\ i = current_task_index
                   THEN None ELSE current_task_index
            /\ registered' = SelectSeq(registered, LAMBDA r : r # task_id)
    /\ UNCHANGED <<sched_is_paused, sched_lock>>

\* TaskScheduler.pause_scheduler
pause_scheduler ==
    /\ sched_lock = "free"
    /\ sched_is_paused' = TRUE
    /\ UNCHANGED <<tasks, current_task_index, sched_lock, registered>>

\* TaskScheduler.resume_scheduler
resume_scheduler ==
    /\ sched_lock = "free"
    /\ sched_is_paused' = FALSE
    /\ UNCHANGED <<tasks, current_task_index, sched_lock, registered>>

\* TaskScheduler.pause_task / resume_task: the task is looked up before the lock
\* is taken; the flag is written to that Task object under the lock.
SetTaskPaused(task_id, value) ==
    /\ sched_lock = "free"
    /\ LET i == IndexOfId(tasks, task_id, 1) IN
       tasks' = IF i = None THEN tasks ELSE [tasks EXCEPT ![i].paused = value]
    /\ UNCHANGED <<current_task_index, sched_is_paused, sched_lock, registered>>

pause_task(task_id) == SetTaskPaused(task_id, TRUE)

resume_task(task_id) == SetTaskPaused(task_id, FALSE)

\* TaskScheduler.restart_task
restart_task(task_id) ==
    /\ sched_lock = "free"
    /\ LET i == IndexOfId(tasks, task_id, 1) IN
       tasks' = IF i = None THEN tasks
                ELSE [tasks EXCEPT ![i].is_running = FALSE,
                                   ![i].last_execution_time = 0,
                                   ![i].consecutive_failures = 0,
                                   ![i].paused = FALSE]
    /\ UNCHANGED <<current_task_index, sched_is_paused, sched_lock, registered>>

\* TaskScheduler.reset: the task list it leaves.  A current index beyond the end
\* of the list raises IndexError before anything is written.
ResetTasks(ts, idx) ==
    LET stopped == IF idx # None THEN [ts EXCEPT ![idx].is_running = FALSE] ELSE ts
    IN [i \in 1..Len(ts) |->
           [stopped[i] EXCEPT !.last_execution_time = 0, !.consecutive_failures = 0]]

\* TaskScheduler.reset
reset ==
    /\ sched_lock = "free"
    /\ IF current_task_index # None /\ current_task_index > Len(tasks)
       THEN UNCHANGED <<tasks, current_task_index, sched_is_paused>>
       ELSE /\ tasks' = ResetTasks(tasks, current_task_index)
            /\ current_task_index' = None
            /\ sched_is_paused' = FALSE
    /\ UNCHANGED <<sched_lock, registered>>

\* TaskScheduler.skip_current_task
skip_current_task ==
    /\ sched_lock = "free"
    /\ IF current_task_index # None /\ current_task_index <= Len(tasks)
       THEN /\ tasks' = [tasks EXCEPT ![current_task_index].is_running = FALSE]
            /\ current_task_index' = None
       ELSE UNCHANGED <<tasks, current_task_index>>
    /\ UNCHANGED <<sched_is_paused, sched_lock, registered>>

\* ============================================================== Monitor
MonitorNames == {"remote_login_monitor", "maintenance_monitor"}
MonitorPriorities == {90, 100}
Templates == {"tplA", "tplB"}

\* The monitors a configuration registers: a name with its pattern list (a list
\* of dictionaries with a detector and a template; a pattern without a detector
\* is never evaluated) and its check interval.
MonitorConfigs ==
    { [name |-> "remote_login_monitor", check_interval |-> 2,
       patterns |-> <<[detector |-> TRUE, template |-> "tplA"]>>],
      [name |-> "maintenance_monitor", check_interval |-> 0,
       patterns |-> <<[detector |-> FALSE, template |-> "tplA"],
                      [detector |-> TRUE, template |-> "tplB"]>>] }

\* What a detector does with a template on a frame: a match, no match, or an
\* exception.
Frames ==
    { f \in [Templates -> {"match", "nomatch", "raise"}] : f["tplB"] # "raise" }
NoFrame == [t \in Templates |-> "nomatch"]

\* Monitor.__init__
NewMonitor(name, priority, patterns, check_interval) ==
    [id |-> name, priority |-> priority, patterns |-> patterns,
     check_interval |-> check_interval, is_active |-> TRUE,
     last_check_time |-> 0, last_match_time |-> 0]

\* A check that does not look at is_active.
should_check_any(monitor, t) ==
    (t - monitor.last_check_time) >= monitor.check_interval

\* A check that does not look at the interval.
should_check_always_due(monitor, t) == monitor.is_active

\* Monitor.should_check
should_check(monitor, t) ==
    IF ~monitor.is_active THEN FALSE
    ELSE (t - monitor.last_check_time) >= monitor.check_interval

\* MonitorManager._check_patterns: the patterns are tried in order and the first
\* match wins; a detector that raises ends the scan with its exception.
RECURSIVE check_patterns(_, _, _)
check_patterns(patterns, frame, k) ==
    IF k > Len(patterns) THEN "nomatch"
    ELSE IF patterns[k].detector
         THEN IF frame[patterns[k].template] = "nomatch"
              THEN check_patterns(patterns, frame, k + 1)
              ELSE frame[patterns[k].template]
         ELSE check_patterns(patterns, frame, k + 1)

\* MonitorManager.check_global_monitors, the loop over the monitors up to the
\* call of a handler: the monitor list it leaves, the monitor whose handler is
\* called (hit) and whether a detector raised.
RECURSIVE ScanMonitors(_, _, _, _)
ScanMonitors(ms, frame, t, i) ==
    IF i > Len(ms) THEN [mons |-> ms, hit |-> None, raised |-> FALSE]
    ELSE IF ~should_check(ms[i], t) THEN ScanMonitors(ms, frame, t, i + 1)
    ELSE LET checked == [ms EXCEPT ![i].last_check_time = t]
             found   == check_patterns(ms[i].patterns, frame, 1)
         IN IF ms[i].patterns = <<>> THEN ScanMonitors(checked, frame, t, i + 1)
            ELSE IF found = "raise"
                 THEN [mons |-> checked, hit |-> None, raised |-> TRUE]
            ELSE IF found = "match"
                 THEN [mons |-> [checked EXCEPT ![i].last_match_time = t],
                       hit |-> i, raised |-> FALSE]
            ELSE ScanMonitors(checked, frame, t, i + 1)

\* MonitorManager.check_global_monitors, the unlocked pause test.
SweepEntry(ret) ==
    /\ pc = "sweep"
    /\ IF mon_is_paused
       THEN pc' = ret /\ sweep_result' = "false" /\ screen_image' = NoFrame
       ELSE pc' = "sweep_lock" /\ sweep_result' = "none" /\ UNCHANGED screen_image
    /\ handler_outcome' = "none"
    /\ UNCHANGED <<global_monitors, mon_is_paused, mon_lock, handling, mon_registered>>

\* MonitorManager.check_global_monitors, from taking the lock to the call of a
\* handler, to the return of False or to a detector's exception.
SweepScan(retFalse, retRaise) ==
    /\ pc = "sweep_lock"
    /\ mon_lock = "free"
    /\ LET scan == ScanMonitors(global_monitors, screen_image, now, 1) IN
       /\ global_monitors' = scan.mons
       /\ IF scan.hit # None
          THEN /\ handling' = scan.mons[scan.hit].id
               /\ mon_lock' = "orchestrator"
               /\ sweep_result' = "none"
               /\ pc' = "handler"
          ELSE /\ handling' = NoValue
               /\ mon_lock' = "free"
               /\ sweep_result' = IF scan.raised THEN "raised" ELSE "false"
               /\ pc' = IF scan.raised THEN retRaise ELSE retFalse
       /\ screen_image' = NoFrame
    /\ UNCHANGED <<mon_is_paused, handler_outcome, mon_registered>>

\* A sweep that reports the handler's own outcome.
HandledResultOfHandler(result) ==
    IF result = "ok" THEN "true" ELSE IF result = "fail" THEN "false" ELSE "raised"

\* What check_global_monitors returns once the handler came back with result
\* "ok" (truthy), "fail" (falsy) or "raise" (an Exception).
HandledResult(result) == "true"

\* MonitorManager.check_global_monitors, from the handler's return to its own.
SweepHandlerReturns(retTrue, retFalse) ==
    /\ pc = "handler"
    /\ \E result \in {"ok", "fail", "raise"} :
          /\ sweep_result' = HandledResult(result)
          /\ handler_outcome' = result
          /\ pc' = IF HandledResult(result) = "true" THEN retTrue ELSE retFalse
    /\ handling' = NoValue
    /\ mon_lock' = "free"
    /\ UNCHANGED <<global_monitors, mon_is_paused, mon_registered, screen_image>>

\* An add_global_monitor without the test for an existing name.
add_global_monitor_again(name, priority, patterns, check_interval) ==
    /\ mon_lock = "free"
    /\ Len(global_monitors) < MaxMonitors
    /\ global_monitors' = SortByPriorityDesc(
           Append(global_monitors, NewMonitor(name, priority, patterns, check_interval)))
    /\ mon_registered' = Append(mon_registered, name)
    /\ UNCHANGED <<mon_is_paused, mon_lock, handling, sweep_result, handler_outcome>>

\* MonitorManager.add_global_monitor
add_global_monitor(name, priority, patterns, check_interval) ==
    /\ mon_lock = "free"
    /\ IF IndexOfId(global_monitors, name, 1) # None
       THEN UNCHANGED <<global_monitors, mon_registered>>
       ELSE /\ Len(global_monitors) < MaxMonitors
            /\ global_monitors' = SortByPriorityDesc(
                   Append(global_monitors,
                          NewMonitor(name, priority, patterns, check_interval)))
            /\ mon_registered' = Append(mon_registered, name)
    /\ UNCHANGED <<mon_is_paused, mon_lock, handling, sweep_result, handler_outcome>>

\* MonitorManager.remove_global_monitor
remove_global_monitor(name) ==
    /\ mon_lock = "free"
    /\ LET i == IndexOfId(global_monitors, name, 1) IN
       IF i = None
       THEN UNCHANGED <<global_monitors, mon_registered>>
       ELSE /\ global_monitors' = Pop(global_monitors, i)
            /\ mon_registered' = SelectSeq(mon_registered, LAMBDA r : r # name)
    /\ UNCHANGED <<mon_is_paused, mon_lock, handling, sweep_result, handler_outcome>>

\* MonitorManager.pause_global_monitoring
pause_global_monitoring ==
    /\ mon_lock = "free"
    /\ mon_is_paused' = TRUE
    /\ UNCHANGED <<global_monitors, mon_lock, handling, sweep_result, handler_outcome,
                   mon_registered>>

\* MonitorManager.resume_global_monitoring
resume_global_monitoring ==
    /\ mon_lock = "free"
    /\ mon_is_paused' = FALSE
    /\ UNCHANGED <<global_monitors, mon_lock, handling, sweep_result, handler_outcome,
                   mon_registered>>

\* MonitorManager.activate_monitor / deactivate_monitor: the monitor is looked up
\* before the lock is taken; the flag is written to that object under the lock.
SetMonitorActive(name, value) ==
    /\ mon_lock = "free"
    /\ LET i == IndexOfId(global_monitors, name, 1) IN
       global_monitors' = IF i = None THEN global_monitors
                          ELSE [global_monitors EXCEPT ![i].is_active = value]
    /\ UNCHANGED <<mon_is_paused, mon_lock, handling, sweep_result, handler_outcome,
                   mon_registered>>

activate_monitor(name) == SetMonitorActive(name, TRUE)

deactivate_monitor(name) == SetMonitorActive(name, FALSE)

\* ======================================================== ImageDetector
\* ImageDetector.get_screen_image: a frame of the screen as it is now.
get_screen_image ==
    \E frame \in Frames : screen_image' = frame

\* An image is what the screen showed at the time of the shot, whole or cut to
\* a region; NoImage is None.
RefreshIntervals == {0, 1}
Regions == {"inside", "outside"}
NoImage == [shot |-> None, region |-> NoValue]
FullFrame(t) == [shot |-> t, region |-> NoValue]

\* image[y:y+height, x:x+width].copy()
Crop(image, region) == [shot |-> image.shot, region |-> region]

\* Whether x < max_w and y < max_h and the clipped width and height are positive.
CropsWithinFrame(region) == region = "inside"

NoImageCall ==
    [op |-> "none", region |-> NoValue, force |-> FALSE, grab |-> "ok",
     template |-> "loaded", threshold |-> 0, max_results |-> 0, width |-> 0,
     scores |-> <<>>, match |-> "ok", captured |-> "none", frame |-> NoImage,
     locations |-> <<>>]

\* ImageDetector.__init__
DetectorInit(intervals) ==
    /\ last_screen_image = NoImage
    /\ last_full_screen_time = 0
    /\ screen_refresh_interval \in intervals
    /\ image_call = NoImageCall

\* What a get_screen_image call leaves: the image returned (ret), the cached
\* full frame and its time, and the capture that was made (captured).
ImageResult(ret, image, time, captured) ==
    [ret |-> ret, image |-> image, time |-> time, captured |-> captured]

\* A get_screen_image that takes a new capture as soon as the interval is reached.
get_screen_image_at_interval(image, time, interval, region, force, t, grab) ==
    IF region # NoValue /\ image # NoImage /\ ~force /\ CropsWithinFrame(region)
    THEN ImageResult(Crop(image, region), image, time, "none")
    ELSE IF force \/ image = NoImage \/ (t - time) >= interval
    THEN IF grab = "raises" THEN ImageResult(NoImage, image, time, "failed")
         ELSE IF region = NoValue
         THEN ImageResult(FullFrame(t), FullFrame(t), t, "full")
         ELSE ImageResult(Crop(FullFrame(t), region), image, time, "region")
    ELSE IF region = NoValue THEN ImageResult(image, image, time, "none")
    ELSE IF grab = "raises" THEN ImageResult(NoImage, image, time, "failed")
    ELSE ImageResult(Crop(FullFrame(t), region), FullFrame(t), t, "full")

\* A get_screen_image that drops its cache when the capture fails.
get_screen_image_dropping(image, time, interval, region, force, t, grab) ==
    IF region # NoValue /\ image # NoImage /\ ~force /\ CropsWithinFrame(region)
    THEN ImageResult(Crop(image, region), image, time, "none")
    ELSE IF force \/ image = NoImage \/ (t - time) > interval
    THEN IF grab = "raises" THEN ImageResult(NoImage, NoImage, 0, "failed")
         ELSE IF region = NoValue
         THEN ImageResult(FullFrame(t), FullFrame(t), t, "full")
         ELSE ImageResult(Crop(FullFrame(t), region), image, time, "region")
    ELSE IF region = NoValue THEN ImageResult(image, image, time, "none")
    ELSE IF grab = "raises" THEN ImageResult(NoImage, NoImage, 0, "failed")
    ELSE ImageResult(Crop(FullFrame(t), region), FullFrame(t), t, "full")

\* ImageDetector.get_screen_image(region, force_refresh) at time t, with the
\* cache (image, time) and ImageGrab.grab answering grab ("ok" or "raises").
\* A region that lies within a cached frame is cut from it, whatever its age;
\* else a new capture is made when forced, without a cache or past the interval
\* (of the region alone when a region is asked for, and then not cached); else
\* the cached frame is returned, or for a region a new full capture is cached
\* and cut.
get_screen_image_cached(image, time, interval, region, force, t, grab) ==
    IF region # NoValue /\ image # NoImage /\ ~force /\ CropsWithinFrame(region)
    THEN ImageResult(Crop(image, region), image, time, "none")
    ELSE IF force \/ image = NoImage \/ (t - time) > interval
    THEN IF grab = "raises" THEN ImageResult(NoImage, image, time, "failed")
         ELSE IF region = NoValue
         THEN ImageResult(FullFrame(t), FullFrame(t), t, "full")
         ELSE ImageResult(Crop(FullFrame(t), region), image, time, "region")
    ELSE IF region = NoValue THEN ImageResult(image, image, time, "none")
    ELSE IF grab = "raises" THEN ImageResult(NoImage, image, time, "failed")
    ELSE ImageResult(Crop(FullFrame(t), region), FullFrame(t), t, "full")

\* ImageDetector.clear_cache
clear_cache ==
    /\ last_screen_image' = NoImage
    /\ last_full_screen_time' = 0
    /\ UNCHANGED screen_refresh_interval

\* cv2.matchTemplate's result along one row: a score per position of the
\* template's left edge.  Scores and thresholds are in tenths.
Scores == {0, 8, 9}
Thresholds == {0, 8, 9}
TemplateWidths == {1, 2}
ScoreMaps == [1..MapLen -> Scores]
ZeroMap == [i \in 1..MapLen |-> 0]

\* region[0], the x offset that is added to a match found in a region.
RegionX(region) == IF region = NoValue THEN 0 ELSE IF region = "inside" THEN 1 ELSE MapLen

\* cv2.minMaxLoc: the position of the maximum, the first one when there are several.
MaxLoc(result) ==
    CHOOSE i \in 1..Len(result) :
        /\ \A j \in 1..Len(result) : result[j] <= result[i]
        /\ \A j \in 1..(i - 1) : result[j] < result[i]

\* cv2.rectangle(result, max_loc, (max_loc[0] + w, ...), 0, -1): the filled
\* rectangle covers both corners.
Blanked(result, loc, w) ==
    [i \in 1..Len(result) |-> IF loc <= i /\ i <= loc + w THEN 0 ELSE result[i]]

\* find_template, the while loop: the centres of the matches, in the order found.
RECURSIVE MatchLocations(_, _, _, _, _, _)
MatchLocations(result, threshold, max_results, w, offset, found) ==
    IF Len(found) >= max_results THEN found
    ELSE LET loc == MaxLoc(result)
         IN IF result[loc] >= threshold
            THEN LET locations == Append(found, loc + (w \div 2) + offset)
                 IN MatchLocations(
                        IF Len(locations) < max_results THEN Blanked(result, loc, w)
                        ELSE result,
                        threshold, max_results, w, offset, locations)
            ELSE found

\* ImageDetector.find_template at time t.  call holds the arguments (template,
\* threshold, region, max_results) and what the environment answers: template
\* is "loaded" or "unloadable" (load_template returned None), grab is what
\* ImageGrab.grab does, scores and width are the match map and the template's
\* width, match is "ok" or "raises" (the template is larger than the screen, or
\* OpenCV raised).  What the call returns (locations) and the cache it leaves.
find_template(image, time, interval, call, t) ==
    LET screen == get_screen_image_cached(image, time, interval, call.region,
                                          FALSE, t, call.grab)
    IN IF call.template = "unloadable"
       THEN [locations |-> <<>>, image |-> image, time |-> time,
             captured |-> "none", frame |-> NoImage]
       ELSE [locations |->
                 IF screen.ret = NoImage \/ call.match = "raises" THEN <<>>
                 ELSE MatchLocations(call.scores, call.threshold, call.max_results,
                                     call.width, RegionX(call.region), <<>>),
             image |-> screen.image, time |-> screen.time,
             captured |-> screen.captured, frame |-> screen.ret]

\* ================================================================ clock
\* time.time() moves on.
Tick ==
    /\ now < MaxClock
    /\ now' = now + 1

\* ======================================================== ControlClient
\* The kinds of control signal, in the order _check_remote_control_signals tests
\* them.  The first six are threading.Event flags, the last three are slots
\* (a dictionary with an "active" entry and a payload).
SignalOrder ==
    <<"system_pause", "system_resume", "restart_system", "restart_game",
      "reset_scheduler", "refresh_detection", "position_control", "remove_job",
      "chat">>
EventKinds ==
    {"system_pause", "system_resume", "restart_system", "restart_game",
     "reset_scheduler", "refresh_detection"}
SignalKinds == {SignalOrder[i] : i \in 1..Len(SignalOrder)}

\* No command has been answered yet.
NoReply == [command |-> NoValue, success |-> FALSE, emitted |-> FALSE]

\* ControlClient.__init__
ClientInit ==
    /\ events = [k \in EventKinds |-> FALSE]
    /\ position_control = [active |-> FALSE, position_id |-> NoValue, enable |-> FALSE]
    /\ remove_job_info = [active |-> FALSE, job_id |-> NoValue]
    /\ chat_info = [active |-> FALSE, content |-> NoValue]
    /\ connected = FALSE
    /\ authenticated = FALSE
    /\ command_result = NoReply

\* bool(s) of a string or None.
Truthy(s) == s # NoValue /\ s # ""

\* Whether a signal of kind k is set.
Pending(k) ==
    IF k \in EventKinds THEN events[k]
    ELSE IF k = "position_control" THEN position_control.active
    ELSE IF k = "remove_job" THEN remove_job_info.active
    ELSE chat_info.active

\* Number of signals set.
PendingCount == Cardinality({k \in SignalKinds : Pending(k)})

\* ControlClient._pause_system ... _refresh_detection: Event.set()
set_event(k) ==
    /\ events' = [events EXCEPT ![k] = TRUE]
    /\ UNCHANGED <<position_control, remove_job_info, chat_info>>

\* ControlClient._toggle_position
toggle_position(position_id, enable) ==
    /\ position_control' =
           [active |-> TRUE, position_id |-> position_id, enable |-> enable]
    /\ UNCHANGED <<events, remove_job_info, chat_info>>

\* ControlClient._remove_job
remove_job(job_id) ==
    /\ remove_job_info' = [active |-> TRUE, job_id |-> job_id]
    /\ UNCHANGED <<events, position_control, chat_info>>

\* ControlClient._send_chat
send_chat(content) ==
    /\ chat_info' = [active |-> TRUE, content |-> content]
    /\ UNCHANGED <<events, position_control, remove_job_info>>

\* A check that looks at the flag and leaves it set.
check_event_peek(ev, k) == ev

\* ControlClient.check_system_pause ... check_refresh_detection: the flags after
\* the call (is_set, then clear).  The call returns the flag's value before it.
check_event(ev, k) == [ev EXCEPT ![k] = FALSE]

\* ControlClient.check_position_control: the slot after the call.  The call returns
\* the position id and the enable flag of an active slot, (None, None) otherwise.
check_position_control(slot) ==
    IF slot.active
    THEN [active |-> FALSE, position_id |-> NoValue, enable |-> FALSE]
    ELSE slot

\* ControlClient.check_remove_job: the slot after the call.  The call returns the
\* job id of an active slot, None otherwise.
check_remove_job(slot) ==
    IF slot.active THEN [active |-> FALSE, job_id |-> NoValue] ELSE slot

\* ControlClient.check_chat_request: the slot after the call.  The call returns the
\* content of an active slot, None otherwise.
check_chat_request(slot) ==
    IF slot.active THEN [active |-> FALSE, content |-> NoValue] ELSE slot

\* =================================================== GameProcessManager
\* What the operating system answers during one poll:
\*   cached_alive  psutil.Process(self.process_id) exists, runs and is no zombie
\*   named_pid     the first process with the configured name (None: there is none)
\*   create_time   create_time() of the process that was found
\*   vanished      the process is gone by the time create_time() is asked for
\*   responding    its status is neither zombie nor dead and cpu_percent() succeeds
\*   window        a visible window's title contains the configured title
Pids == {1, 2}
CreateTimes == {1, 3}
MaxRuntimes == {0, 2}
WindowTitles == {"", "VPgame"}
Facts ==
    [cached_alive : BOOLEAN, named_pid : {None} \cup Pids, create_time : CreateTimes,
     vanished : BOOLEAN, responding : BOOLEAN, window : BOOLEAN]
NoFacts ==
    [cached_alive |-> FALSE, named_pid |-> None, create_time |-> 1,
     vanished |-> FALSE, responding |-> FALSE, window |-> FALSE]

NoCall == [op |-> "none", force |-> FALSE, outcome |-> "none"]

\* GameProcessManager.__init__, with no game process at construction: the first
\* check_game_status it runs found none.
GameInit(runtimes, titles) ==
    /\ game = [current_status |-> "NOT_RUNNING", process_id |-> None,
               start_time |-> None]
    /\ max_runtime \in runtimes
    /\ window_title \in titles
    /\ poll_facts = NoFacts
    /\ poll_result = "none"
    /\ game_call = NoCall

\* GameProcessManager._find_game_process: the pid of the process found, or None.
find_game_process(g, facts) ==
    IF g.process_id # None /\ facts.cached_alive THEN g.process_id
    ELSE facts.named_pid

\* A poll that looks at the window before the runtime.
polled_status_window_first(g, facts, t, ceiling, title) ==
    LET pid == IF g.process_id # None /\ facts.cached_alive THEN g.process_id
               ELSE facts.named_pid
        st  == IF g.start_time = None THEN facts.create_time ELSE g.start_time
    IN IF pid = None THEN "NOT_RUNNING"
       ELSE IF g.start_time = None /\ facts.vanished THEN "raised"
       ELSE IF ~facts.responding THEN "FROZEN"
       ELSE IF title # "" /\ facts.window THEN "RUNNING_NORMAL"
       ELSE "RUNNING_IDLE"

\* A poll that answers UNKNOWN when create_time() raises.
polled_status_degrading(g, facts, t, ceiling, title) ==
    LET pid == find_game_process(g, facts)
        st  == IF g.start_time = None THEN facts.create_time ELSE g.start_time
    IN IF pid = None THEN "NOT_RUNNING"
       ELSE IF g.start_time = None /\ facts.vanished THEN "UNKNOWN"
       ELSE IF ~facts.responding THEN "FROZEN"
       ELSE IF ceiling > 0 /\ t - st > ceiling THEN "RUNNING_IDLE"
       ELSE IF title # "" /\ facts.window THEN "RUNNING_NORMAL"
       ELSE "RUNNING_IDLE"

\* GameProcessManager.check_game_status: what the call returns; "raised" when
\* create_time() raises NoSuchProcess, which the method does not catch.
polled_status(g, facts, t, ceiling, title) ==
    LET pid == find_game_process(g, facts)
        st  == IF g.start_time = None THEN facts.create_time ELSE g.start_time
    IN IF pid = None THEN "NOT_RUNNING"
       ELSE IF g.start_time = None /\ facts.vanished THEN "raised"
       ELSE IF ~facts.responding THEN "FROZEN"
       ELSE IF ceiling > 0 /\ t - st > ceiling THEN "RUNNING_IDLE"
       ELSE IF title # "" /\ facts.window THEN "RUNNING_NORMAL"
       ELSE "RUNNING_IDLE"

\* GameProcessManager.check_game_status: the manager's fields after the call.
check_game_status(g, facts, t, ceiling, title) ==
    LET pid    == find_game_process(g, facts)
        status == polled_status(g, facts, t, ceiling, title)
    IN IF status = "NOT_RUNNING"
       THEN [current_status |-> "NOT_RUNNING", process_id |-> None,
             start_time |-> None]
       ELSE IF status = "raised"
       THEN [g EXCEPT !.process_id = pid]
       ELSE [current_status |-> status, process_id |-> pid,
             start_time |-> IF g.start_time = None THEN facts.create_time
                            ELSE g.start_time]

\* GameProcessManager.start_game: the fields after the call.  pid is the process
\* that appeared within the startup wait and created its creation time, None when
\* none appeared or the launch raised.
start_game(g, pid, created) ==
    IF g.current_status # "NOT_RUNNING" THEN g
    ELSE IF pid # None
         THEN [current_status |-> "RUNNING_NORMAL", process_id |-> pid,
               start_time |-> created]
         ELSE [g EXCEPT !.current_status = "NOT_RUNNING"]

\* What the operating system answers during one close_game:
\*   lookup     psutil.Process(pid), or process_iter when no pid is cached
\*   terminate  process.terminate()
\*   wait       process.wait(timeout=10): ends, times out, or raises
\*   kill       process.kill()
\*   named      a process with the configured name exists
CloseFacts ==
    [lookup : {"ok", "raises"}, terminate : {"ok", "raises"},
     wait : {"ok", "timeout", "raises"}, kill : {"ok", "raises"}, named : BOOLEAN]

\* The operating system answering without errors.
CalmCloseFacts ==
    {os \in CloseFacts : /\ os.lookup = "ok" /\ os.terminate = "ok"
                         /\ os.wait = "ok" /\ os.kill = "ok"}

\* GameProcessManager.close_game: the path the call takes.
close_outcome(g, force, os) ==
    IF g.current_status = "NOT_RUNNING" THEN "already"
    ELSE IF os.lookup = "raises" THEN "raised"
    ELSE IF g.process_id # None
         THEN IF force
              THEN IF os.kill = "raises" THEN "raised" ELSE "closed"
              ELSE IF os.terminate = "raises" \/ os.wait = "raises" THEN "raised"
              ELSE IF os.wait = "timeout" /\ os.kill = "raises" THEN "raised"
              ELSE "closed"
    ELSE IF ~os.named THEN "not_found"
    ELSE IF force
         THEN IF os.kill = "raises" THEN "raised" ELSE "closed"
         ELSE IF os.terminate = "raises" THEN "raised" ELSE "closed"

\* A close_game whose termination calls are not guarded: the error leaves the
\* method with the status it had set on entry.
close_game_unguarded(g, force, os) ==
    LET outcome == close_outcome(g, force, os)
    IN IF outcome = "already" THEN g
       ELSE IF outcome = "raised" THEN [g EXCEPT !.current_status = "CLOSING"]
       ELSE IF outcome = "not_found" THEN [g EXCEPT !.current_status = "NOT_RUNNING"]
       ELSE [current_status |-> "NOT_RUNNING", process_id |-> None,
             start_time |-> None]

\* GameProcessManager.close_game: the fields after the call.  Without a cached pid
\* the process is looked for by name; when none is found only the status is
\* written.  An error of a termination call is caught and the fields are cleared.
close_game(g, force, os) ==
    LET outcome == close_outcome(g, force, os)
    IN IF outcome = "already" THEN g
       ELSE IF outcome = "not_found" THEN [g EXCEPT !.current_status = "NOT_RUNNING"]
       ELSE [current_status |-> "NOT_RUNNING", process_id |-> None,
             start_time |-> None]

\* GameProcessManager.restart_game
restart_game(g, os, pid, created) ==
    start_game(close_game(g, TRUE, os), pid, created)

\* =========================================================== CoreEngine
\* What the orchestrator has done in the tick it is in: the signal kind its drain
\* acted on, whether it changed the TaskScheduler's or the MonitorManager's state,
\* and whether it changed a Task's last_execution_time.
FreshTick == [acted |-> NoValue, changed |-> FALSE, lastexec_changed |-> FALSE]

\* CoreEngine.start: the flags when the main loop is entered.
EngineInit ==
    /\ is_running = TRUE
    /\ is_paused = FALSE
    /\ stop_cause = "none"
    /\ tick = FreshTick

\* No call of another thread waits for TaskScheduler.lock.
NoCancel == [op |-> NoValue, task_id |-> NoValue]

\* No unit of work has been executed yet.
\* What check_position_control returns: (None, None) when it saw no signal,
\* otherwise the (position_id, enable) it read.
NoPair == [signal |-> FALSE, position_id |-> NoValue, enable |-> FALSE]

Pair(position_id, enable) ==
    [signal |-> TRUE, position_id |-> position_id, enable |-> enable]

AuxInit ==
    /\ action_result = "none"
    /\ polled = "none"
    /\ toggler = [at |-> "idle", position_id |-> NoValue, enable |-> FALSE]
    /\ checker = [at |-> "idle", position_id |-> NoValue, enable |-> FALSE,
                  returned |-> NoPair]
    /\ duty_log = [published |-> {}, owed |-> NoPair]
    /\ forcer = [at |-> "idle", original_pause_state |-> FALSE, frame |-> NoFrame,
                 found |-> "none"]
    /\ is_detection_paused = FALSE
    /\ pause_requested = FALSE

\* HotkeySystem.__init__ and StatusUI.__init__: nothing requested yet.
OperatorInit ==
    /\ operator_pause = FALSE
    /\ ui_pc = "idle"
    /\ launch_flip = FALSE
    /\ cancel_request = NoCancel
    /\ AuxInit

\* Whether this step changes a Task's last_execution_time.
LastExecChanged ==
    \/ Len(tasks') # Len(tasks)
    \/ \E i \in 1..Len(tasks) :
          tasks'[i].last_execution_time # tasks[i].last_execution_time

\* The record of the tick after a step of the orchestrator.
Noted(acted) ==
    [acted |-> acted,
     changed |-> \/ tick.changed
                 \/ <<tasks, current_task_index, sched_is_paused>>'
                       # <<tasks, current_task_index, sched_is_paused>>
                 \/ <<global_monitors, mon_is_paused>>'
                       # <<global_monitors, mon_is_paused>>,
     lastexec_changed |-> tick.lastexec_changed \/ LastExecChanged]

\* _main_loop, except Exception: the error is logged, the loop sleeps a second and
\* goes on with the next tick.
ExceptTarget == "cooldown"

\* CoreEngine.pause_all
pause_all ==
    /\ is_paused' = TRUE
    /\ pause_scheduler
    /\ pause_global_monitoring

\* CoreEngine.resume_all
resume_all ==
    /\ is_paused' = FALSE
    /\ resume_scheduler
    /\ resume_global_monitoring

\* CoreEngine.restart
restart(os) ==
    /\ game' = close_game(game, FALSE, os)
    /\ is_running' = FALSE
    /\ stop_cause' = IF is_running THEN "restart" ELSE stop_cause

\* CoreEngine.shutdown
shutdown ==
    /\ is_running' = FALSE
    /\ stop_cause' = IF is_running THEN "shutdown" ELSE stop_cause

\* A _handle_game_status whose RUNNING_NORMAL branch leaves a paused scheduler
\* paused.
handle_game_status_keeping_pause(g, status, os, pid, created) ==
    CASE status = "NOT_RUNNING" ->
            game' = start_game(g, pid, created) /\ UNCHANGED schedVars
      [] status = "MAINTENANCE" ->
            game' = g /\ pause_scheduler
      [] status \in {"REMOTE_LOGIN", "CRASH", "FROZEN"} ->
            game' = restart_game(g, os, pid, created) /\ UNCHANGED schedVars
      [] OTHER ->
            game' = g /\ UNCHANGED schedVars

\* CoreEngine._handle_game_status, on the manager as the poll left it.
handle_game_status(g, status, os, pid, created) ==
    CASE status = "NOT_RUNNING" ->
            game' = start_game(g, pid, created) /\ UNCHANGED schedVars
      [] status = "MAINTENANCE" ->
            game' = g /\ pause_scheduler
      [] status \in {"REMOTE_LOGIN", "CRASH", "FROZEN"} ->
            game' = restart_game(g, os, pid, created) /\ UNCHANGED schedVars
      [] status = "RUNNING_NORMAL" ->
            /\ game' = g
            /\ IF sched_is_paused THEN resume_scheduler ELSE UNCHANGED schedVars
      [] OTHER ->
            game' = g /\ UNCHANGED schedVars

\* _main_loop: the while test that opens a tick.
LoopTest ==
    /\ pc = "loop"
    /\ pc' = IF is_running THEN "poll" ELSE "exited"
    /\ tick' = FreshTick
    /\ UNCHANGED <<schedVars, monVars, screen_image, detectorVars, linkVars, threadVars,
                   clientVars, gameVars,
                   is_running, is_paused, control_client, stop_cause, now>>

\* _main_loop: check_game_status and _handle_game_status.
PollGame(facts, os, pid, created) ==
    /\ pc = "poll"
    /\ LET status == polled_status(game, facts, now, max_runtime, window_title)
           g      == check_game_status(game, facts, now, max_runtime, window_title)
       IN IF status = "raised"
          THEN game' = g /\ UNCHANGED schedVars /\ pc' = ExceptTarget
          ELSE handle_game_status(g, status, os, pid, created)
               /\ pc' = "pause_check"
    /\ UNCHANGED <<monVars, screen_image, detectorVars, linkVars, clientVars,
                   max_runtime, window_title,
                   poll_facts, poll_result, game_call, is_running, is_paused, control_client,
                   stop_cause, now>>
    /\ tick' = Noted(tick.acted)

\* _main_loop: the test of the global pause flag.
PauseCheck ==
    /\ pc = "pause_check"
    /\ pc' = IF is_paused THEN "loop" ELSE "signals"
    /\ UNCHANGED <<schedVars, monVars, screen_image, detectorVars, linkVars, threadVars,
                   clientVars, gameVars,
                   engineVars, now>>

\* _main_loop without a control client: the drain is skipped.
NoControlClient ==
    /\ pc = "signals"
    /\ ~control_client
    /\ pc' = "foreground"
    /\ UNCHANGED <<schedVars, monVars, screen_image, detectorVars, linkVars, threadVars,
                   clientVars, gameVars,
                   engineVars, now>>

\* Whether the drain takes the branch of kind k: what its check returns is truthy.
Reported(k) ==
    IF k \in EventKinds THEN events[k]
    ELSE IF k = "position_control"
         THEN position_control.active /\ Truthy(position_control.position_id)
    ELSE IF k = "remove_job"
         THEN remove_job_info.active /\ Truthy(remove_job_info.job_id)
    ELSE chat_info.active /\ Truthy(chat_info.content)

\* The index in SignalOrder of the branch the drain takes, None when it takes none.
RECURSIVE FirstReported(_)
FirstReported(i) ==
    IF i > Len(SignalOrder) THEN None
    ELSE IF Reported(SignalOrder[i]) THEN i ELSE FirstReported(i + 1)

\* The flags after the checks of the kinds at i .. last, in order.
RECURSIVE CheckedEvents(_, _, _)
CheckedEvents(ev, i, last) ==
    IF i > last \/ SignalOrder[i] \notin EventKinds THEN ev
    ELSE CheckedEvents(check_event(ev, SignalOrder[i]), i + 1, last)

\* _check_remote_control_signals, the checks up to the branch it takes: every
\* check_* before the branch and the branch's own have been called.
DrainBranch(n) ==
    /\ pc = "signals"
    /\ control_client
    /\ FirstReported(1) = n
    /\ LET last == IF n = None THEN Len(SignalOrder) ELSE n IN
       /\ events' = CheckedEvents(events, 1, last)
       /\ position_control' = IF last >= 7 THEN check_position_control(position_control)
                              ELSE position_control
       /\ remove_job_info' = IF last >= 8 THEN check_remove_job(remove_job_info)
                             ELSE remove_job_info
       /\ chat_info' = IF last >= 9 THEN check_chat_request(chat_info) ELSE chat_info
    /\ UNCHANGED <<screen_image, detectorVars, linkVars, threadVars, max_runtime, window_title,
                   poll_facts, poll_result,
                   game_call, control_client, now>>

\* The drain's branches.  Its return value is not used by _main_loop: the tick goes
\* on with the foreground step whichever branch was taken.
DrainSystemPause ==
    /\ DrainBranch(1)
    /\ pause_all
    /\ pc' = "foreground"
    /\ UNCHANGED <<game, is_running, stop_cause>>
    /\ tick' = Noted("system_pause")

DrainSystemResume ==
    /\ DrainBranch(2)
    /\ resume_all
    /\ pc' = "foreground"
    /\ UNCHANGED <<game, is_running, stop_cause>>
    /\ tick' = Noted("system_resume")

DrainRestartSystem ==
    /\ DrainBranch(3)
    /\ \E os \in CalmCloseFacts : restart(os)
    /\ pc' = "foreground"
    /\ UNCHANGED <<schedVars, monVars, is_paused>>
    /\ tick' = Noted("restart_system")

DrainRestartGame ==
    /\ DrainBranch(4)
    /\ \E os \in CalmCloseFacts, pid \in {None, 1} :
          game' = restart_game(game, os, pid, 1)
    /\ pc' = "foreground"
    /\ UNCHANGED <<schedVars, monVars, is_running, is_paused, stop_cause>>
    /\ tick' = Noted("restart_game")

DrainResetScheduler ==
    /\ DrainBranch(5)
    /\ reset
    /\ pc' = "foreground"
    /\ UNCHANGED <<monVars, game, is_running, is_paused, stop_cause>>
    /\ tick' = Noted("reset_scheduler")

\* core_engine.py does not import threading: threading.Thread raises NameError.
DrainRefreshDetection ==
    /\ DrainBranch(6)
    /\ pc' = ExceptTarget
    /\ UNCHANGED <<schedVars, monVars, game, is_running, is_paused, stop_cause>>
    /\ tick' = Noted("refresh_detection")

DrainPositionControl ==
    /\ DrainBranch(7)
    /\ pc' = "foreground"
    /\ UNCHANGED <<schedVars, monVars, game, is_running, is_paused, stop_cause>>
    /\ tick' = Noted("position_control")

\* _handle_remove_job
DrainRemoveJob ==
    /\ DrainBranch(8)
    /\ reset
    /\ pc' = "foreground"
    /\ UNCHANGED <<monVars, game, is_running, is_paused, stop_cause>>
    /\ tick' = Noted("remove_job")

\* _handle_chat
DrainChat ==
    /\ DrainBranch(9)
    /\ reset
    /\ pc' = "foreground"
    /\ UNCHANGED <<monVars, game, is_running, is_paused, stop_cause>>
    /\ tick' = Noted("chat")

DrainNothing ==
    /\ DrainBranch(None)
    /\ pc' = "foreground"
    /\ UNCHANGED <<schedVars, monVars, game, is_running, is_paused, stop_cause>>
    /\ tick' = Noted(NoValue)

\* _ensure_game_foreground: the window calls are made only for RUNNING_NORMAL, and
\* win32gui.GetForegroundWindow is called outside any try.
EnsureGameForeground ==
    /\ pc = "foreground"
    /\ \E outcome \in {"ok", "raise"} :
          /\ outcome = "raise" => game.current_status = "RUNNING_NORMAL"
          /\ pc' = IF outcome = "ok" THEN "capture" ELSE ExceptTarget
    /\ UNCHANGED <<schedVars, monVars, screen_image, detectorVars, linkVars, threadVars,
                   clientVars, gameVars,
                   engineVars, now>>

\* _main_loop: the test of the scheduler's pause flag before the step.
SchedulerTest ==
    /\ pc = "sched"
    /\ pc' = IF sched_is_paused THEN "loop" ELSE "step"
    /\ UNCHANGED <<schedVars, monVars, screen_image, detectorVars, linkVars, threadVars,
                   clientVars, gameVars,
                   engineVars, now>>

\* _main_loop, except Exception: time.sleep(1), then the next tick.
Cooldown ==
    /\ pc = "cooldown"
    /\ pc' = "loop"
    /\ UNCHANGED <<schedVars, monVars, screen_image, detectorVars, linkVars, threadVars,
                   clientVars, gameVars,
                   engineVars, now>>

\* ControlClient._on_command: commands the remote listener accepts.  "remove <id>"
\* hands on whatever follows "remove ", stripped: the empty string for "remove ".
\* A position is always "position_<n>"; an empty chat text is rejected.
Commands ==
    {"pause system", "resume system", "restart system", "restart game",
     "reset scheduler", "refresh detection", "enable position 1", "remove job7",
     "remove ", "say:hi"}

\* Every command text the listener is sent here: the ones above, the other
\* accepted spellings, and texts the handler rejects.  NoValue stands for a
\* 'command' entry that is no string.
CommandTexts ==
    Commands \cup
    {"restart bot", "restart", "restart wolf 2", "reset", "disable position 6",
     "enable position 0", "enable position 7", "enable position x",
     "enable position", "disable position 7", "disable position -1", "say:",
     "dance", "Pause System", "pause system now", "", NoValue}

\* command.startswith(prefix), on the texts above.
StartsWith(command, prefix) ==
    CASE prefix = "restart wolf" -> command \in {"restart wolf 2"}
      [] prefix = "enable position" ->
            command \in {"enable position 1", "enable position 0", "enable position 7",
                         "enable position x", "enable position"}
      [] prefix = "disable position" ->
            command \in {"disable position 6", "disable position 7", "disable position -1"}
      [] prefix = "remove " -> command \in {"remove job7", "remove "}
      [] prefix = "say:" -> command \in {"say:hi", "say:"}

\* What is left of a command when its prefix is taken away, stripped:
\* command.replace(prefix, "").strip(), command.split("remove ")[1].strip() and
\* command[4:].strip().
Stripped(command) ==
    CASE command = "enable position 1" -> "1"
      [] command = "enable position 0" -> "0"
      [] command \in {"enable position 7", "disable position 7"} -> "7"
      [] command = "disable position 6" -> "6"
      [] command = "disable position -1" -> "-1"
      [] command = "enable position x" -> "x"
      [] command = "remove job7" -> "job7"
      [] command = "say:hi" -> "hi"
      [] OTHER -> ""

\* int(text): whether it returns (it raises ValueError otherwise), and what.
IsInt(text) == text \in {"-1", "0", "1", "6", "7"}
IntOf(text) ==
    CASE text = "-1" -> -1
      [] text = "0" -> 0
      [] text = "1" -> 1
      [] text = "6" -> 6
      [] text = "7" -> 7

\* f"position_{position_num}"
PositionId(position_num) ==
    <<"position_1", "position_2", "position_3", "position_4", "position_5",
      "position_6">>[position_num]

\* What _on_command decides: the signal it sets (kind "none": no signal), the
\* payload of a slot, and the success flag it hands to _send_command_result.
Accepted(kind, payload, enable) ==
    [kind |-> kind, payload |-> payload, enable |-> enable, success |-> TRUE]
Rejected == [kind |-> "none", payload |-> NoValue, enable |-> FALSE, success |-> FALSE]

\* The position branches without the range test.
position_command_any_number(command, enable) ==
    IF ~IsInt(Stripped(command)) THEN Rejected
    ELSE LET position_num == IntOf(Stripped(command))
         IN Accepted("position_control",
                     IF position_num \in 1..6 THEN PositionId(position_num)
                     ELSE "position_other",
                     enable)

\* _on_command, the position branches: int() of what follows, then the range test.
position_command(command, enable) ==
    IF ~IsInt(Stripped(command)) THEN Rejected
    ELSE LET position_num == IntOf(Stripped(command))
         IN IF 1 <= position_num /\ position_num <= 6
            THEN Accepted("position_control", PositionId(position_num), enable)
            ELSE Rejected

\* _on_command, the if/elif chain.  A command that is no string fails the
\* equality tests and raises at the first startswith, which the outer except
\* turns into a rejection.
handle_command(command) ==
    IF command = "pause system" THEN Accepted("system_pause", NoValue, FALSE)
    ELSE IF command = "resume system" THEN Accepted("system_resume", NoValue, FALSE)
    ELSE IF command \in {"restart system", "restart bot"}
    THEN Accepted("restart_system", NoValue, FALSE)
    ELSE IF command = NoValue THEN Rejected
    ELSE IF \/ command \in {"restart game", "restart"}
            \/ StartsWith(command, "restart wolf")
    THEN Accepted("restart_game", NoValue, FALSE)
    ELSE IF command \in {"reset scheduler", "reset"}
    THEN Accepted("reset_scheduler", NoValue, FALSE)
    ELSE IF command = "refresh detection" THEN Accepted("refresh_detection", NoValue, FALSE)
    ELSE IF StartsWith(command, "enable position") THEN position_command(command, TRUE)
    ELSE IF StartsWith(command, "disable position") THEN position_command(command, FALSE)
    ELSE IF StartsWith(command, "remove ")
    THEN Accepted("remove_job", Stripped(command), FALSE)
    ELSE IF StartsWith(command, "say:")
    THEN IF Truthy(Stripped(command)) THEN Accepted("chat", Stripped(command), FALSE)
         ELSE Rejected
    ELSE Rejected

\* _on_command: the signal the command sets.
on_command(command) ==
    LET decided == handle_command(command)
    IN CASE decided.kind \in EventKinds -> set_event(decided.kind)
         [] decided.kind = "position_control" ->
                toggle_position(decided.payload, decided.enable)
         [] decided.kind = "remove_job" -> remove_job(decided.payload)
         [] decided.kind = "chat" -> send_chat(decided.payload)
         [] OTHER -> UNCHANGED clientVars

\* ControlClient._send_command_result: the result is emitted only while the
\* client is connected and authenticated.
send_command_result(command, success) ==
    [command |-> command, success |-> success,
     emitted |-> connected /\ authenticated]

\* ==================================================== scheduler harness
\* The orchestration thread calls execute_current_task_step again and again while
\* other threads (hotkeys, status surface) call the administrative methods.
SchedInit ==
    /\ tasks = <<>>
    /\ current_task_index = None
    /\ sched_is_paused = FALSE
    /\ sched_lock = "free"
    /\ registered = <<>>

MonInit ==
    /\ global_monitors = <<>>
    /\ mon_is_paused = FALSE
    /\ mon_lock = "free"
    /\ handling = NoValue
    /\ sweep_result = "none"
    /\ handler_outcome = "none"
    /\ mon_registered = <<>>

InitSched ==
    /\ SchedInit
    /\ MonInit
    /\ ClientInit
    /\ GameInit({0}, {"VPgame"})
    /\ EngineInit
    /\ OperatorInit
    /\ DetectorInit({1})
    /\ control_client = FALSE
    /\ screen_image = NoFrame
    /\ now = StartClock
    /\ pc = "step"

notSched == <<monVars, screen_image, detectorVars, linkVars, threadVars, clientVars,
              gameVars, engineVars>>

SchedStepEntry == StepEntry("step") /\ UNCHANGED <<notSched, now>>
SchedStepLocked == StepLocked("step") /\ UNCHANGED <<notSched, now>>
SchedStepActionReturns ==
    StepActionReturns("step", max_retries + MaxFailures) /\ UNCHANGED <<notSched, now>>
SchedAddTask ==
    /\ \E id \in TaskIds, p \in Priorities, iv \in Intervals : add_task(id, p, iv)
    /\ UNCHANGED <<notSched, now, pc>>
SchedRemoveTask ==
    /\ \E id \in TaskIds : remove_task(id)
    /\ UNCHANGED <<notSched, now, pc>>
SchedPauseTask ==
    /\ \E id \in TaskIds : pause_task(id)
    /\ UNCHANGED <<notSched, now, pc>>
SchedResumeTask ==
    /\ \E id \in TaskIds : resume_task(id)
    /\ UNCHANGED <<notSched, now, pc>>
SchedRestartTask ==
    /\ \E id \in TaskIds : restart_task(id)
    /\ UNCHANGED <<notSched, now, pc>>
SchedReset == reset /\ UNCHANGED <<notSched, now, pc>>
SchedSkipCurrentTask == skip_current_task /\ UNCHANGED <<notSched, now, pc>>
SchedPauseScheduler == pause_scheduler /\ UNCHANGED <<notSched, now, pc>>
SchedResumeScheduler == resume_scheduler /\ UNCHANGED <<notSched, now, pc>>
SchedTick == Tick /\ UNCHANGED <<schedVars, notSched, pc>>

SchedNext ==
    \/ SchedStepEntry
    \/ SchedStepLocked
    \/ SchedStepActionReturns
    \/ SchedAddTask
    \/ SchedRemoveTask
    \/ SchedPauseTask
    \/ SchedResumeTask
    \/ SchedRestartTask
    \/ SchedReset
    \/ SchedSkipCurrentTask
    \/ SchedPauseScheduler
    \/ SchedResumeScheduler
    \/ SchedTick

SpecSched == InitSched /\ [][SchedNext]_vars

\* ====================================================== monitor harness
\* The orchestration thread captures a frame and sweeps, again and again, while
\* monitors are registered, removed and switched by other threads.
InitMon ==
    /\ SchedInit
    /\ MonInit
    /\ ClientInit
    /\ GameInit({0}, {"VPgame"})
    /\ EngineInit
    /\ OperatorInit
    /\ DetectorInit({1})
    /\ control_client = FALSE
    /\ screen_image = NoFrame
    /\ now = StartClock
    /\ pc = "capture"

notMon == <<schedVars, detectorVars, linkVars, threadVars, clientVars, gameVars, engineVars>>

MonCapture ==
    /\ pc = "capture"
    /\ get_screen_image
    /\ pc' = "sweep"
    /\ sweep_result' = "none"
    /\ handler_outcome' = "none"
    /\ UNCHANGED <<global_monitors, mon_is_paused, mon_lock, handling, mon_registered,
                   notMon, now>>
MonSweepEntry == SweepEntry("capture") /\ UNCHANGED <<notMon, now>>
MonSweepScan == SweepScan("capture", "capture") /\ UNCHANGED <<notMon, now>>
MonSweepHandlerReturns ==
    SweepHandlerReturns("capture", "capture") /\ UNCHANGED <<notMon, now>>
MonAddMonitor ==
    /\ \E c \in MonitorConfigs, p \in MonitorPriorities :
          add_global_monitor(c.name, p, c.patterns, c.check_interval)
    /\ UNCHANGED <<notMon, screen_image, now, pc>>
MonRemoveMonitor ==
    /\ \E n \in MonitorNames : remove_global_monitor(n)
    /\ UNCHANGED <<notMon, screen_image, now, pc>>
MonActivate ==
    /\ \E n \in MonitorNames : activate_monitor(n)
    /\ UNCHANGED <<notMon, screen_image, now, pc>>
MonDeactivate ==
    /\ \E n \in MonitorNames : deactivate_monitor(n)
    /\ UNCHANGED <<notMon, screen_image, now, pc>>
MonPause == pause_global_monitoring /\ UNCHANGED <<notMon, screen_image, now, pc>>
MonResume == resume_global_monitoring /\ UNCHANGED <<notMon, screen_image, now, pc>>
MonTick == Tick /\ UNCHANGED <<monVars, notMon, screen_image, pc>>

MonNext ==
    \/ MonCapture
    \/ MonSweepEntry
    \/ MonSweepScan
    \/ MonSweepHandlerReturns
    \/ MonAddMonitor
    \/ MonRemoveMonitor
    \/ MonActivate
    \/ MonDeactivate
    \/ MonPause
    \/ MonResume
    \/ MonTick

SpecMon == InitMon /\ [][MonNext]_vars

\* ========================================================= poll harness
\* check_game_status is called again and again; between two polls the caller
\* starts, closes or restarts the game, or does nothing, and time passes.
InitPoll ==
    /\ SchedInit
    /\ MonInit
    /\ ClientInit
    /\ GameInit(MaxRuntimes, WindowTitles)
    /\ EngineInit
    /\ OperatorInit
    /\ DetectorInit({1})
    /\ control_client = FALSE
    /\ screen_image = NoFrame
    /\ now = StartClock
    /\ pc = "poll"

notPoll == <<schedVars, monVars, screen_image, detectorVars, linkVars, threadVars,
             clientVars, engineVars>>

PollCheck ==
    /\ pc = "poll"
    /\ \E facts \in Facts :
          /\ game' = check_game_status(game, facts, now, max_runtime, window_title)
          /\ poll_result' = polled_status(game, facts, now, max_runtime, window_title)
          /\ poll_facts' = facts
    /\ game_call' = [NoCall EXCEPT !.op = "check_game_status"]
    /\ pc' = "handle"
    /\ UNCHANGED <<max_runtime, window_title, notPoll, now>>
PollStartGame ==
    /\ pc = "handle"
    /\ \E pid \in {None} \cup Pids : game' = start_game(game, pid, now)
    /\ game_call' = [NoCall EXCEPT !.op = "start_game"]
    /\ pc' = "poll"
    /\ UNCHANGED <<max_runtime, window_title, poll_facts, poll_result, notPoll, now>>
PollCloseGame ==
    /\ pc = "handle"
    /\ \E force \in BOOLEAN, os \in CloseFacts :
          /\ game' = close_game(game, force, os)
          /\ game_call' = [op |-> "close_game", force |-> force,
                           outcome |-> close_outcome(game, force, os)]
    /\ pc' = "poll"
    /\ UNCHANGED <<max_runtime, window_title, poll_facts, poll_result, notPoll, now>>
PollRestartGame ==
    /\ pc = "handle"
    /\ \E os \in CloseFacts, pid \in {None} \cup Pids :
          game' = restart_game(game, os, pid, now)
    /\ game_call' = [NoCall EXCEPT !.op = "restart_game"]
    /\ pc' = "poll"
    /\ UNCHANGED <<max_runtime, window_title, poll_facts, poll_result, notPoll, now>>
PollAgain ==
    /\ pc = "handle"
    /\ pc' = "poll"
    /\ UNCHANGED <<gameVars, notPoll, now>>
PollTick == Tick /\ UNCHANGED <<gameVars, notPoll, pc>>

PollNext ==
    \/ PollCheck
    \/ PollStartGame
    \/ PollCloseGame
    \/ PollRestartGame
    \/ PollAgain
    \/ PollTick

SpecPoll == InitPoll /\ [][PollNext]_vars

\* ===================================================== detector harness
\* get_screen_image and find_template are called again and again, with and
\* without a region, while time passes and the cache is cleared now and then.
InitImage ==
    /\ SchedInit
    /\ MonInit
    /\ ClientInit
    /\ GameInit({0}, {"VPgame"})
    /\ EngineInit
    /\ OperatorInit
    /\ DetectorInit(RefreshIntervals)
    /\ control_client = FALSE
    /\ screen_image = NoFrame
    /\ now = StartClock
    /\ pc = "image"

notImage == <<schedVars, monVars, screen_image, linkVars, threadVars, clientVars, gameVars,
              engineVars>>

ImageGetScreenImage ==
    /\ pc = "image"
    /\ \E region \in {NoValue} \cup Regions, force \in BOOLEAN, grab \in {"ok", "raises"} :
          LET r == get_screen_image_cached(last_screen_image, last_full_screen_time,
                                           screen_refresh_interval, region, force,
                                           now, grab)
          IN /\ last_screen_image' = r.image
             /\ last_full_screen_time' = r.time
             /\ image_call' = [NoImageCall EXCEPT !.op = "get_screen_image",
                                  !.region = region, !.force = force, !.grab = grab,
                                  !.captured = r.captured, !.frame = r.ret]
    /\ pc' = "image_done"
    /\ UNCHANGED <<screen_refresh_interval, notImage, now>>

\* The calls of find_template: the match map matters only when there is a
\* template and a screen to match on.
FindTemplateCalls ==
    { c \in [op : {"find_template"}, region : {NoValue, "inside"}, force : {FALSE},
             grab : {"ok", "raises"}, template : {"loaded", "unloadable"},
             threshold : Thresholds, max_results : 1..MaxResults,
             width : TemplateWidths, scores : ScoreMaps, match : {"ok", "raises"},
             captured : {"none"}, frame : {NoImage}, locations : {<<>>}] :
        (c.template = "unloadable" \/ c.grab = "raises" \/ c.match = "raises") =>
            /\ c.scores = ZeroMap
            /\ c.threshold = 8 /\ c.max_results = 1 /\ c.width = 1 }

ImageFindTemplate ==
    /\ pc = "image"
    /\ \E call \in FindTemplateCalls :
          LET r == find_template(last_screen_image, last_full_screen_time,
                                 screen_refresh_interval, call, now)
          IN /\ last_screen_image' = r.image
             /\ last_full_screen_time' = r.time
             /\ image_call' = [call EXCEPT !.captured = r.captured, !.frame = r.frame,
                                           !.locations = r.locations]
    /\ pc' = "image_done"
    /\ UNCHANGED <<screen_refresh_interval, notImage, now>>

\* The caller goes on; the finished call is history no more.
ImageClearCache ==
    /\ pc = "image_done"
    /\ clear_cache
    /\ image_call' = NoImageCall
    /\ pc' = "image"
    /\ UNCHANGED <<notImage, now>>

ImageReturn ==
    /\ pc = "image_done"
    /\ image_call' = NoImageCall
    /\ pc' = "image"
    /\ UNCHANGED <<last_screen_image, last_full_screen_time, screen_refresh_interval,
                   notImage, now>>

ImageTick == pc = "image" /\ Tick /\ UNCHANGED <<detectorVars, notImage, pc>>

ImageNext ==
    \/ ImageGetScreenImage
    \/ ImageFindTemplate
    \/ ImageClearCache
    \/ ImageReturn
    \/ ImageTick

SpecImage == InitImage /\ [][ImageNext]_vars

\* ================================================ control client harness
\* The socket.io thread calls the client's callbacks: connect, disconnect, the
\* authentication result, and the commands the server forwards.
InitClient ==
    /\ SchedInit
    /\ MonInit
    /\ ClientInit
    /\ GameInit({0}, {"VPgame"})
    /\ EngineInit
    /\ OperatorInit
    /\ DetectorInit({1})
    /\ control_client = TRUE
    /\ screen_image = NoFrame
    /\ now = StartClock
    /\ pc = "client"

notClient ==
    <<schedVars, monVars, screen_image, detectorVars, threadVars, gameVars, engineVars,
      now, pc>>

\* ControlClient._on_connect
ClientOnConnect ==
    /\ pc = "client"
    /\ connected' = TRUE
    /\ UNCHANGED <<authenticated, command_result, clientVars, notClient>>

\* ControlClient._on_disconnect
ClientOnDisconnect ==
    /\ pc = "client"
    /\ connected' = FALSE
    /\ authenticated' = FALSE
    /\ UNCHANGED <<command_result, clientVars, notClient>>

\* ControlClient._on_authenticated: a refusal disconnects, and the disconnect
\* callback clears both flags.
ClientOnAuthenticated ==
    /\ pc = "client"
    /\ connected
    /\ \E success \in BOOLEAN :
          /\ authenticated' = success
          /\ connected' = success
    /\ UNCHANGED <<command_result, clientVars, notClient>>

\* ControlClient._on_command, with the result it sends.
ClientOnCommand ==
    /\ pc = "client"
    /\ \E command \in CommandTexts :
          /\ on_command(command)
          /\ command_result' =
                 send_command_result(command, handle_command(command).success)
    /\ UNCHANGED <<connected, authenticated, notClient>>

ClientNext ==
    \/ ClientOnConnect
    \/ ClientOnDisconnect
    \/ ClientOnAuthenticated
    \/ ClientOnCommand

SpecClient == InitClient /\ [][ClientNext]_vars

\* ======================================================= engine harness
\* The main loop runs with one scheduled task enabled and one of the exception
\* monitors registered, while the remote listener publishes commands and the
\* process may be told to shut down.  A command read by no step before the
\* drain is published right before it, a shutdown request right before the
\* while test that reads it, and time passes between ticks.
EngineTasks == <<NewTask("process_positions", 80, MaxInterval)>>

EngineMonitors ==
    <<NewMonitor("remote_login_monitor", 100,
                 <<[detector |-> TRUE, template |-> "tplA"]>>, 0)>>

\* What the operating system answers in this harness: one game process, which
\* is there or not.
EngineFacts ==
    {f \in Facts : /\ f.named_pid \in {None, 1}
                   /\ f.cached_alive = (f.named_pid # None)
                   /\ f.create_time = 1}

InitEngine ==
    /\ tasks = SortByPriorityDesc(EngineTasks)
    /\ current_task_index = None
    /\ sched_is_paused = FALSE
    /\ sched_lock = "free"
    /\ registered = <<"process_positions">>
    /\ global_monitors = SortByPriorityDesc(EngineMonitors)
    /\ mon_is_paused = FALSE
    /\ mon_lock = "free"
    /\ handling = NoValue
    /\ sweep_result = "none"
    /\ handler_outcome = "none"
    /\ mon_registered = <<"remote_login_monitor">>
    /\ ClientInit
    /\ GameInit({0}, {"VPgame"})
    /\ EngineInit
    /\ OperatorInit
    /\ DetectorInit({1})
    /\ control_client \in BOOLEAN
    /\ screen_image = NoFrame
    /\ now = StartClock
    /\ pc = "loop"

engineRest == <<detectorVars, linkVars, threadVars, clientVars, gameVars, is_running,
                is_paused, control_client,
                stop_cause, now>>

EngPollGame ==
    /\ \E facts \in EngineFacts, os \in CalmCloseFacts, pid \in {None, 1} :
          PollGame(facts, os, pid, 1)
    /\ UNCHANGED threadVars
EngCapture ==
    /\ pc = "capture"
    /\ get_screen_image
    /\ pc' = "sweep"
    /\ sweep_result' = "none"
    /\ handler_outcome' = "none"
    /\ UNCHANGED <<global_monitors, mon_is_paused, mon_lock, handling, mon_registered,
                   schedVars, engineRest, tick>>
EngSweepEntry ==
    SweepEntry("sched") /\ UNCHANGED <<schedVars, engineRest, tick>>
EngSweepScan ==
    /\ SweepScan("sched", ExceptTarget)
    /\ UNCHANGED <<schedVars, engineRest>>
    /\ tick' = Noted(tick.acted)
EngSweepHandlerReturns ==
    SweepHandlerReturns("loop", "sched") /\ UNCHANGED <<schedVars, engineRest, tick>>
EngStepEntry ==
    StepEntry("loop") /\ UNCHANGED <<monVars, screen_image, engineRest, tick>>
EngStepLocked ==
    /\ StepLocked("loop")
    /\ UNCHANGED <<monVars, screen_image, engineRest>>
    /\ tick' = Noted(tick.acted)
EngStepActionReturns ==
    /\ StepActionReturns("loop", MaxFailures)
    /\ UNCHANGED <<monVars, screen_image, engineRest>>
    /\ tick' = Noted(tick.acted)
EngOnCommand ==
    /\ control_client
    /\ pc \in {"pause_check", "signals"}
    /\ \E command \in Commands : on_command(command)
    /\ PendingCount' <= MaxPending
    /\ UNCHANGED <<schedVars, monVars, screen_image, detectorVars, linkVars, threadVars,
                   gameVars,
                   engineVars, now, pc>>
EngShutdown ==
    /\ is_running
    /\ pc = "loop"
    /\ shutdown
    /\ UNCHANGED <<schedVars, monVars, screen_image, detectorVars, linkVars, threadVars,
                   clientVars,
                   gameVars, is_paused,
                   control_client, tick, now, pc>>
EngTick ==
    /\ pc = "loop"
    /\ Tick
    /\ UNCHANGED <<schedVars, monVars, screen_image, detectorVars, linkVars, threadVars,
                   clientVars, gameVars,
                   engineVars, pc>>

EngineNext ==
    \/ LoopTest
    \/ EngPollGame
    \/ PauseCheck
    \/ NoControlClient
    \/ DrainSystemPause
    \/ DrainSystemResume
    \/ DrainRestartSystem
    \/ DrainRestartGame
    \/ DrainResetScheduler
    \/ DrainRefreshDetection
    \/ DrainPositionControl
    \/ DrainRemoveJob
    \/ DrainChat
    \/ DrainNothing
    \/ EnsureGameForeground
    \/ EngCapture
    \/ EngSweepEntry
    \/ EngSweepScan
    \/ EngSweepHandlerReturns
    \/ SchedulerTest
    \/ EngStepEntry
    \/ EngStepLocked
    \/ EngStepActionReturns
    \/ Cooldown
    \/ EngOnCommand
    \/ EngShutdown
    \/ EngTick

SpecEngine == InitEngine /\ [][EngineNext]_vars

\* ===================================================== operator harness
\* The main loop runs without a control client while the operator presses
\* hotkeys and uses the status surface.  Each callback runs on its own thread;
\* a callback that needs a lock is taken once the lock is free.
InitOperator ==
    /\ tasks = SortByPriorityDesc(EngineTasks)
    /\ current_task_index = None
    /\ sched_is_paused = FALSE
    /\ sched_lock = "free"
    /\ registered = <<"process_positions">>
    /\ global_monitors = SortByPriorityDesc(EngineMonitors)
    /\ mon_is_paused = FALSE
    /\ mon_lock = "free"
    /\ handling = NoValue
    /\ sweep_result = "none"
    /\ handler_outcome = "none"
    /\ mon_registered = <<"remote_login_monitor">>
    /\ ClientInit
    /\ GameInit({0}, {"VPgame"})
    /\ EngineInit
    /\ OperatorInit
    /\ DetectorInit({1})
    /\ control_client = FALSE
    /\ screen_image = NoFrame
    /\ now = StartClock
    /\ pc = "loop"

operatorRest ==
    <<monVars, screen_image, detectorVars, linkVars, clientVars, control_client,
      stop_cause, tick, now, pc>>

\* GameProcessManager.start_game: whether the call gets past its test of
\* current_status and issues subprocess.Popen.
start_game_launches(g) == g.current_status = "NOT_RUNNING"

\* CoreEngine._handle_game_status: whether the branch taken for status issues a
\* launch command, on the manager as the poll left it.
poll_launches(g, status, os) ==
    CASE status = "NOT_RUNNING" -> start_game_launches(g)
      [] status \in {"REMOTE_LOGIN", "CRASH", "FROZEN"} ->
            start_game_launches(close_game(g, TRUE, os))
      [] OTHER -> FALSE

\* _main_loop: check_game_status and _handle_game_status, with the launch
\* command noted.
OpPollGame ==
    /\ \E facts \in EngineFacts, os \in CalmCloseFacts, pid \in {None, 1} :
          /\ PollGame(facts, os, pid, 1)
          /\ launch_flip' =
                 (launch_flip #
                  poll_launches(
                      check_game_status(game, facts, now, max_runtime, window_title),
                      polled_status(game, facts, now, max_runtime, window_title), os))
    /\ UNCHANGED <<operator_pause, ui_pc, cancel_request, auxVars>>

\* HotkeySystem.toggle_scheduler
HotkeyToggleScheduler ==
    /\ IF sched_is_paused
       THEN resume_scheduler /\ operator_pause' = FALSE
       ELSE pause_scheduler /\ operator_pause' = TRUE
    /\ UNCHANGED <<operatorRest, gameVars, is_running, is_paused, ui_pc, launch_flip,
                   cancel_request, auxVars>>

\* HotkeySystem.toggle_all and StatusUI._toggle_pause: resume_all when the
\* engine is paused, pause_all otherwise.
TogglePause ==
    /\ IF is_paused
       THEN resume_all /\ operator_pause' = FALSE
       ELSE pause_all /\ UNCHANGED operator_pause
    /\ UNCHANGED <<screen_image, detectorVars, linkVars, clientVars, control_client,
                   stop_cause, tick, now, pc, gameVars, is_running, ui_pc, launch_flip,
                   cancel_request, auxVars>>

\* HotkeySystem.emergency_stop: pause_all, then the scheduler's reset, which
\* clears the scheduler's pause flag again.
HotkeyEmergencyStop ==
    /\ sched_lock = "free"
    /\ is_paused' = TRUE
    /\ pause_global_monitoring
    /\ tasks' = ResetTasks(tasks, current_task_index)
    /\ current_task_index' = None
    /\ sched_is_paused' = FALSE
    /\ operator_pause' = FALSE
    /\ UNCHANGED <<sched_lock, registered, screen_image, detectorVars, linkVars,
                   clientVars, control_client, stop_cause, tick, now, pc, gameVars,
                   is_running, ui_pc, launch_flip,
                   cancel_request, auxVars>>

\* StatusUI._reset_scheduler
UiResetScheduler ==
    /\ reset
    /\ operator_pause' = FALSE
    /\ UNCHANGED <<operatorRest, gameVars, is_running, is_paused, ui_pc, launch_flip,
                   cancel_request, auxVars>>

\* StatusUI._restart_game: a new thread runs restart_game; first close_game.
UiRestartGame ==
    /\ ui_pc = "idle"
    /\ \E os \in CalmCloseFacts : game' = close_game(game, TRUE, os)
    /\ ui_pc' = "closed"
    /\ UNCHANGED <<schedVars, operatorRest, max_runtime, window_title, poll_facts,
                   poll_result, game_call, is_running, is_paused, operator_pause,
                   launch_flip, cancel_request, auxVars>>

\* restart_game on the status surface's thread, start_game: the test of
\* current_status, STARTING and the launch command.
UiStartLaunch ==
    /\ ui_pc = "closed"
    /\ IF start_game_launches(game)
       THEN /\ game' = [game EXCEPT !.current_status = "STARTING"]
            /\ launch_flip' = ~launch_flip
            /\ ui_pc' = "starting"
       ELSE /\ UNCHANGED <<game, launch_flip>>
            /\ ui_pc' = "idle"
    /\ UNCHANGED <<schedVars, operatorRest, max_runtime, window_title, poll_facts,
                   poll_result, game_call, is_running, is_paused, operator_pause,
                   cancel_request, auxVars>>

\* restart_game on the status surface's thread, start_game: the wait for the
\* process, which is found (pid) or not within startup_wait_time.
UiStartWait ==
    /\ ui_pc = "starting"
    /\ \E pid \in {None, 1} :
          game' = IF pid # None
                  THEN [current_status |-> "RUNNING_NORMAL", process_id |-> pid,
                        start_time |-> 1]
                  ELSE [game EXCEPT !.current_status = "NOT_RUNNING"]
    /\ ui_pc' = "idle"
    /\ UNCHANGED <<schedVars, operatorRest, max_runtime, window_title, poll_facts,
                   poll_result, game_call, is_running, is_paused, operator_pause,
                   launch_flip, cancel_request, auxVars>>

OperatorNext ==
    \/ LoopTest
    \/ OpPollGame
    \/ PauseCheck
    \/ NoControlClient
    \/ EnsureGameForeground
    \/ EngCapture
    \/ EngSweepEntry
    \/ EngSweepScan
    \/ EngSweepHandlerReturns
    \/ SchedulerTest
    \/ EngStepEntry
    \/ EngStepLocked
    \/ EngStepActionReturns
    \/ Cooldown
    \/ EngTick
    \/ HotkeyToggleScheduler
    \/ TogglePause
    \/ HotkeyEmergencyStop
    \/ UiResetScheduler
    \/ UiRestartGame
    \/ UiStartLaunch
    \/ UiStartWait

SpecOperator == InitOperator /\ [][OperatorNext]_vars

\* ================================================ remote pause and resume
\* The main loop with a control client whose remote side sends only "pause system"
\* and "resume system".  The network thread delivers a command at any point of the
\* tick; the orchestrator thread never blocks, so its next step is always taken.
InitResume ==
    /\ InitEngine
    /\ control_client = TRUE

ResumeCommands == {"pause system", "resume system"}

RemoteOnCommand ==
    /\ control_client
    /\ pc \in {"loop", "pause_check", "signals"}
    /\ \E command \in ResumeCommands : on_command(command)
    /\ UNCHANGED <<schedVars, monVars, screen_image, detectorVars, linkVars, threadVars,
                   gameVars,
                   engineVars, now, pc>>

\* The steps of the orchestrator thread in this configuration.
OrchestratorLoop ==
    \/ LoopTest
    \/ EngPollGame
    \/ PauseCheck
    \/ DrainSystemPause
    \/ DrainSystemResume
    \/ DrainNothing
    \/ EnsureGameForeground
    \/ EngCapture
    \/ EngSweepEntry
    \/ EngSweepScan
    \/ EngSweepHandlerReturns
    \/ SchedulerTest
    \/ EngStepEntry
    \/ EngStepLocked
    \/ EngStepActionReturns
    \/ Cooldown

ResumeNext ==
    \/ OrchestratorLoop
    \/ RemoteOnCommand
    \/ EngTick

SpecResume == InitResume /\ [][ResumeNext]_vars /\ WF_vars(OrchestratorLoop)

\* ===================================================== repeated stepping
\* The scheduler as _setup_scheduled_tasks leaves it, two tasks of any priorities
\* and intervals, stepped again and again by the main loop while time passes.  No
\* other thread calls in, the scheduler is not paused and no monitor preempts.
RotationTasks ==
    {SortByPriorityDesc(<<NewTask("process_positions", p1, iv1),
                          NewTask("check_overtime", p2, iv2)>>) :
        p1 \in Priorities, p2 \in Priorities, iv1 \in Intervals, iv2 \in Intervals}

InitRotation ==
    /\ tasks \in RotationTasks
    /\ current_task_index = None
    /\ sched_is_paused = FALSE
    /\ sched_lock = "free"
    /\ registered = <<"process_positions", "check_overtime">>
    /\ MonInit
    /\ ClientInit
    /\ GameInit({0}, {"VPgame"})
    /\ EngineInit
    /\ OperatorInit
    /\ DetectorInit({1})
    /\ control_client = FALSE
    /\ screen_image = NoFrame
    /\ now = StartClock
    /\ pc = "step"

\* One step() of the orchestrator thread.
RotationStep ==
    \/ SchedStepEntry
    \/ SchedStepLocked
    \/ SchedStepActionReturns

RotationNext ==
    \/ RotationStep
    \/ SchedTick

SpecRotation == InitRotation /\ [][RotationNext]_vars /\ WF_vars(RotationStep)

\* ================================================== cancellation requests
\* The scheduler stepped by the main loop while another thread (a hotkey, the
\* status surface) calls skip_current_task, restart_task or reset during a unit
\* of work.  The caller blocks at `with self.lock`; threading.Lock has no queue,
\* so once the lock is released either thread may be the next to take it.
CancelRequests ==
    {[op |-> "skip_current_task", task_id |-> NoValue],
     [op |-> "reset", task_id |-> NoValue]}
    \cup {[op |-> "restart_task", task_id |-> id] : id \in TaskIds}

\* Another thread reaches `with self.lock` while the orchestrator holds the lock.
IssueCancel ==
    /\ pc = "action"
    /\ cancel_request = NoCancel
    /\ \E r \in CancelRequests : cancel_request' = r
    /\ UNCHANGED <<schedVars, monVars, screen_image, detectorVars, linkVars,
                   operator_pause, ui_pc, launch_flip, auxVars, clientVars, gameVars,
                   engineVars, now, pc>>

\* The waiting thread takes the lock and runs the body of its call.
GrantCancel ==
    /\ cancel_request # NoCancel
    /\ CASE cancel_request.op = "skip_current_task" -> skip_current_task
         [] cancel_request.op = "reset" -> reset
         [] OTHER -> restart_task(cancel_request.task_id)
    /\ cancel_request' = NoCancel
    /\ UNCHANGED <<monVars, screen_image, detectorVars, linkVars,
                   operator_pause, ui_pc, launch_flip, auxVars, clientVars, gameVars,
                   engineVars, now, pc>>

CancelNext ==
    \/ SchedStepEntry
    \/ SchedStepLocked
    \/ SchedStepActionReturns
    \/ IssueCancel
    \/ GrantCancel
    \/ SchedTick

SpecCancel == InitRotation /\ [][CancelNext]_vars

\* ==================================================== outcome of a step
\* The scheduler stepped by the main loop, with the way each task.action() call
\* ended kept in action_result.
OutcomeStepActionReturns ==
    /\ \E result \in ActionResults :
          /\ execute_task(result, "step", max_retries + MaxFailures)
          /\ action_result' = result
    /\ UNCHANGED <<monVars, screen_image, detectorVars, linkVars, operator_pause, ui_pc,
                   launch_flip, cancel_request, polled, fineVars, clientVars, gameVars,
                   engineVars, now>>

OutcomeNext ==
    \/ SchedStepEntry
    \/ SchedStepLocked
    \/ OutcomeStepActionReturns
    \/ SchedTick

SpecOutcome == InitRotation /\ [][OutcomeNext]_vars

\* ================================================ reaction to the poll
\* The main loop without a control client, with the value each poll returned kept
\* in polled and the launch command noted; the scheduler hotkey is pressed now and
\* then, so that a poll finds the scheduler paused.
ReactPollGame ==
    /\ \E facts \in EngineFacts, os \in CalmCloseFacts, pid \in {None, 1} :
          /\ PollGame(facts, os, pid, 1)
          /\ polled' = polled_status(game, facts, now, max_runtime, window_title)
          /\ launch_flip' =
                 (launch_flip #
                  poll_launches(
                      check_game_status(game, facts, now, max_runtime, window_title),
                      polled_status(game, facts, now, max_runtime, window_title), os))
    /\ UNCHANGED <<operator_pause, ui_pc, cancel_request, action_result, fineVars>>

ReactionNext ==
    \/ LoopTest
    \/ ReactPollGame
    \/ PauseCheck
    \/ NoControlClient
    \/ EnsureGameForeground
    \/ EngCapture
    \/ EngSweepEntry
    \/ EngSweepScan
    \/ EngSweepHandlerReturns
    \/ SchedulerTest
    \/ EngStepEntry
    \/ EngStepLocked
    \/ EngStepActionReturns
    \/ Cooldown
    \/ EngTick
    \/ HotkeyToggleScheduler

SpecReaction == InitOperator /\ [][ReactionNext]_vars

\* ==================================================== runtime ceiling
\* The main loop without a control client and with a runtime ceiling configured
\* (config['game']['max_runtime'] > 0).  A process that start_game launches is
\* created at the time of the launch.  No other thread acts; the orchestrator
\* thread never blocks, so its next step is always taken.
RuntimeCeiling == 2

InitRuntime ==
    /\ tasks = SortByPriorityDesc(EngineTasks)
    /\ current_task_index = None
    /\ sched_is_paused = FALSE
    /\ sched_lock = "free"
    /\ registered = <<"process_positions">>
    /\ global_monitors = SortByPriorityDesc(EngineMonitors)
    /\ mon_is_paused = FALSE
    /\ mon_lock = "free"
    /\ handling = NoValue
    /\ sweep_result = "none"
    /\ handler_outcome = "none"
    /\ mon_registered = <<"remote_login_monitor">>
    /\ ClientInit
    /\ GameInit({RuntimeCeiling}, {"VPgame"})
    /\ EngineInit
    /\ OperatorInit
    /\ DetectorInit({1})
    /\ control_client = FALSE
    /\ screen_image = NoFrame
    /\ now = StartClock
    /\ pc = "loop"

RuntimePollGame ==
    /\ \E facts \in EngineFacts, os \in CalmCloseFacts, pid \in {None, 1} :
          /\ PollGame(facts, os, pid, now)
          /\ polled' = polled_status(game, facts, now, max_runtime, window_title)
    /\ UNCHANGED <<operator_pause, ui_pc, launch_flip, cancel_request, action_result,
                   fineVars>>

\* The steps of the orchestrator thread in this configuration.
RuntimeLoop ==
    \/ LoopTest
    \/ RuntimePollGame
    \/ PauseCheck
    \/ NoControlClient
    \/ EnsureGameForeground
    \/ EngCapture
    \/ EngSweepEntry
    \/ EngSweepScan
    \/ EngSweepHandlerReturns
    \/ SchedulerTest
    \/ EngStepEntry
    \/ EngStepLocked
    \/ EngStepActionReturns
    \/ Cooldown

RuntimeNext ==
    \/ RuntimeLoop
    \/ EngTick

SpecRuntime == InitRuntime /\ [][RuntimeNext]_vars /\ WF_vars(RuntimeLoop)

\* ================================================================ claims
\* Position of an id in a registration history.
RECURSIVE PosIn(_, _, _)
PosIn(seq, id, i) ==
    IF i > Len(seq) THEN None
    ELSE IF seq[i] = id THEN i ELSE PosIn(seq, id, i + 1)

RunningTasks == {i \in 1..Len(tasks) : tasks[i].is_running}

\* C1: in every reachable state, under any interleaving of the scheduler step
\* with add_task, remove_task, pause_task, resume_task, restart_task,
\* skip_current_task and reset, at most one Task has is_running = true.
C1_AtMostOneRunning == Cardinality(RunningTasks) <= 1

\* A task runs while another registered task is due and not paused.
C1_Witness ==
    \E i, j \in 1..Len(tasks) :
        i # j /\ tasks[i].is_running /\ should_run(tasks[j], now)

\* The three conditions of eligibility, as the claim states them.
Eligible(task) ==
    /\ ~task.is_running
    /\ ~task.paused
    /\ now - task.last_execution_time >= task.interval_seconds

\* a comes before b: higher priority, or equal priority and registered earlier.
TaskBefore(a, b) ==
    \/ a.priority > b.priority
    \/ a.priority = b.priority
       /\ PosIn(registered, a.id, 1) < PosIn(registered, b.id, 1)

\* C4: when no task is current, the step selects exactly the Task that comes
\* first in priority-descending order (equal priorities in registration order)
\* among the Tasks that are not running, not paused and due; a Task violating
\* one of the three conditions is never selected, and when no Task qualifies
\* nothing is selected or executed.
C4_SelectsFirstEligible ==
    [][ (pc = "step_lock" /\ pc' # "step_lock" /\ current_task_index = None) =>
        LET E == {i \in 1..Len(tasks) : Eligible(tasks[i])} IN
        IF E = {}
        THEN tasks' = tasks /\ current_task_index' = None /\ pc' # "action"
        ELSE \E i \in E :
                /\ \A j \in E \ {i} : TaskBefore(tasks[i], tasks[j])
                /\ current_task_index' = i
                /\ pc' = "action"
                /\ tasks'[i].is_running
                /\ tasks'[i].last_execution_time = now
                /\ \A j \in 1..Len(tasks) : j # i => tasks'[j] = tasks[j]
      ]_vars

\* A task was selected ahead of a due task of the same priority, and a due task
\* of lower priority waits behind a paused one.
C4_Witness ==
    /\ pc = "action"
    /\ Len(tasks) = 2
    /\ tasks[1].is_running
    /\ tasks[1].priority = tasks[2].priority
    /\ should_run(tasks[2], now)

\* Whether a monitor has a pattern that matches the frame.
HasMatchingPattern(m, frame) ==
    \E k \in 1..Len(m.patterns) :
        m.patterns[k].detector /\ frame[m.patterns[k].template] = "match"

\* Active, due and matching.
Qualifies(m) ==
    /\ m.is_active
    /\ now - m.last_check_time >= m.check_interval
    /\ HasMatchingPattern(m, screen_image)

MonitorBefore(a, b) ==
    \/ a.priority > b.priority
    \/ a.priority = b.priority
       /\ PosIn(mon_registered, a.id, 1) < PosIn(mon_registered, b.id, 1)

\* C3: one sweep invokes at most one handler, the handler of the first monitor,
\* in priority-descending order with ties in registration order, that is
\* active, due and has a matching pattern; the sweep then returns true and no
\* monitor behind it is evaluated.  (A detector that raises ends the sweep
\* without a handler call.)
C3_FirstMatchOnly ==
    [][ /\ (pc = "sweep_lock" /\ pc' # "sweep_lock") =>
            LET Q == {i \in 1..Len(global_monitors) : Qualifies(global_monitors[i])}
                noRaise == \A t \in Templates : screen_image[t] # "raise"
            IN /\ pc' = "handler" =>
                    \E i \in Q :
                       /\ handling' = global_monitors[i].id
                       /\ \A j \in Q \ {i} :
                              MonitorBefore(global_monitors[i], global_monitors[j])
                       /\ \A j \in 1..Len(global_monitors) :
                              MonitorBefore(global_monitors[i], global_monitors[j])
                                 => global_monitors'[j] = global_monitors[j]
               /\ (noRaise /\ Q # {}) => pc' = "handler"
               /\ Q = {} => pc' # "handler"
        /\ (pc = "handler" /\ pc' # "handler") =>
              /\ sweep_result' = "true"
              /\ pc' # "sweep_lock"
              /\ global_monitors' = global_monitors
      ]_vars

\* Two monitors of equal priority both match; the handler of the one registered
\* first is being called.
C3_Witness ==
    /\ pc = "handler"
    /\ Len(global_monitors) = 2
    /\ global_monitors[1].priority = global_monitors[2].priority
    /\ handling = global_monitors[1].id
    /\ global_monitors[2].is_active
    /\ now - global_monitors[2].last_check_time >= global_monitors[2].check_interval

\* C5: when the matched monitor's handler raises or returns a failure value,
\* the sweep still returns true, scans no further monitor and lets no exception
\* out.
C5_HandledDespiteFailure ==
    (pc # "handler" /\ handler_outcome \in {"fail", "raise"}) =>
        (sweep_result = "true" /\ handling = NoValue /\ mon_lock = "free")

\* A sweep came back after its handler raised.
C5_Witness ==
    pc = "capture" /\ handler_outcome = "raise" /\ sweep_result = "true"

\* C2: in a tick in which the monitor sweep returns handled = true, the scheduler
\* step is not invoked, no Task's unit of work runs and no Task's
\* last_execution_time changes in that tick; in a tick in which the sweep returns
\* false and the scheduler is not paused, an eligible Task is executed and its
\* last_execution_time is updated.
C2_HandledTickLeavesTasksAlone ==
    [][ /\ (pc = "handler" /\ pc' # "handler") =>
              /\ sweep_result' = "true"
              /\ pc' = "loop"
              /\ tasks' = tasks
              /\ ~tick'.lastexec_changed
        /\ (pc = "step_lock" /\ pc' # "step_lock"
              /\ \E i \in 1..Len(tasks) : Eligible(tasks[i])) =>
              /\ pc' = "action"
              /\ \E i \in 1..Len(tasks) :
                    /\ Eligible(tasks[i])
                    /\ current_task_index' = i
                    /\ tasks'[i].is_running
                    /\ tasks'[i].last_execution_time = now
      ]_vars

\* Position of a signal kind in the drain's order.
RECURSIVE KindIndex(_, _)
KindIndex(k, i) ==
    IF i > Len(SignalOrder) THEN None
    ELSE IF SignalOrder[i] = k THEN i ELSE KindIndex(k, i + 1)

PendingKinds == {k \in SignalKinds : Pending(k)}

\* A step of the orchestrator that is a whole drain.
DrainStep == pc = "signals" /\ pc' # "signals" /\ control_client

\* C6: when several control signals are pending at the start of a drain, exactly
\* one is acted on in that tick, the first pending one in the order pause,
\* resume, restart-system, restart-game, reset-scheduler, refresh-detection,
\* position control, job removal, chat; every other pending signal remains
\* pending.
C6_ExactlyFirstPendingActed ==
    [][ (DrainStep /\ PendingKinds # {}) =>
            \E k \in PendingKinds :
               /\ \A j \in PendingKinds : KindIndex(k, 1) <= KindIndex(j, 1)
               /\ tick'.acted = k
               /\ ~Pending(k)'
               /\ \A j \in PendingKinds \ {k} : Pending(j)'
      ]_vars

C8_PausedTickTouchesNothing ==
    [][ (pc = "pause_check" /\ pc' # "pause_check" /\ is_paused) =>
            /\ pc' = "loop"
            /\ ~tick.changed
            /\ schedVars' = schedVars
            /\ monVars' = monVars
      ]_vars

\* C9: the tick loop exits only on explicit shutdown.  An error raised by a step
\* of a tick is followed by the cooldown and the next tick, and the loop does not
\* end while shutdown has not been requested.
C9_ExitsOnlyOnShutdown ==
    [][ /\ (pc # "exited" /\ pc' = "exited") =>
               (pc = "loop" /\ stop_cause = "shutdown")
        /\ (pc = "cooldown" /\ pc' # "cooldown") => pc' = "loop"
      ]_vars

\* The facts of a poll step, as the claim names them.
ProcessFound ==
    \/ game.process_id # None /\ poll_facts'.cached_alive
    \/ poll_facts'.named_pid # None

Elapsed == now - game'.start_time

WindowVisible == window_title # "" /\ poll_facts'.window

PollStep == pc = "poll" /\ pc' = "handle"

\* C10 as stated: no matching process gives NOT_RUNNING with the cached process id
\* and start time cleared; else an unresponsive process gives FROZEN; else an
\* elapsed runtime above the configured ceiling gives RUNNING_IDLE even when the
\* window is visible; else a visible window with the configured title gives
\* RUNNING_NORMAL; else RUNNING_IDLE.
C10_PollDecisionOrder ==
    [][ (PollStep /\ poll_result' # "raised") =>
            /\ game'.current_status = poll_result'
            /\ IF ~ProcessFound
               THEN /\ poll_result' = "NOT_RUNNING"
                    /\ game'.process_id = None
                    /\ game'.start_time = None
               ELSE IF ~poll_facts'.responding THEN poll_result' = "FROZEN"
               ELSE IF Elapsed > max_runtime THEN poll_result' = "RUNNING_IDLE"
               ELSE IF WindowVisible THEN poll_result' = "RUNNING_NORMAL"
               ELSE poll_result' = "RUNNING_IDLE"
      ]_vars

\* C10, amended: the runtime rule applies when a positive ceiling is configured; a
\* ceiling of 0 switches it off.
C10_PollDecisionOrderPositiveCeiling ==
    [][ (PollStep /\ poll_result' # "raised") =>
            /\ game'.current_status = poll_result'
            /\ IF ~ProcessFound
               THEN /\ poll_result' = "NOT_RUNNING"
                    /\ game'.process_id = None
                    /\ game'.start_time = None
               ELSE IF ~poll_facts'.responding THEN poll_result' = "FROZEN"
               ELSE IF max_runtime > 0 /\ Elapsed > max_runtime
                    THEN poll_result' = "RUNNING_IDLE"
               ELSE IF WindowVisible THEN poll_result' = "RUNNING_NORMAL"
               ELSE poll_result' = "RUNNING_IDLE"
      ]_vars

\* A poll found the runtime above a positive ceiling while the window was visible.
C10_Witness ==
    /\ pc = "handle"
    /\ poll_result = "RUNNING_IDLE"
    /\ poll_facts.responding
    /\ poll_facts.window
    /\ window_title # ""
    /\ max_runtime > 0
    /\ game.start_time # None
    /\ now - game.start_time > max_runtime

\* A step that is a whole close_game call.
CloseStep == pc = "handle" /\ pc' = "poll" /\ game_call'.op = "close_game"

\* C11: for every prior state and every value of force, close_game returns with
\* current_status = NOT_RUNNING, also when a terminate, kill or wait call raises
\* and when no process is found.
C11_CloseLeavesNotRunning ==
    [][ CloseStep => game'.current_status = "NOT_RUNNING" ]_vars

\* A graceful close whose termination call raised has returned.
C11_Witness ==
    /\ pc = "poll"
    /\ game_call.op = "close_game"
    /\ game_call.outcome = "raised"
    /\ ~game_call.force
    /\ game.current_status = "NOT_RUNNING"
    /\ game.process_id = None

\* An operating-system call of the poll failed: the process that was found is
\* gone when its creation time is asked for.
OsCallFailed == ProcessFound /\ game.start_time = None /\ poll_facts'.vanished

\* C12: no exception escapes check_game_status; when an operating-system call it
\* makes fails unexpectedly, the poll returns UNKNOWN instead of raising.
C12_PollNeverRaises ==
    [][ PollStep =>
            /\ poll_result' # "raised"
            /\ OsCallFailed => poll_result' = "UNKNOWN"
      ]_vars

\* C13: after reset() returns, every registered Task is immediately eligible (the
\* interval has elapsed and the next step may select it), every failure counter
\* is zero, the current slot is empty, no Task is running and the scheduler's
\* pause flag is cleared.
C13_ResetMakesAllEligible ==
    [][ SchedReset =>
            /\ \A i \in 1..Len(tasks') :
                  /\ Eligible(tasks'[i])
                  /\ should_run(tasks'[i], now)
                  /\ tasks'[i].consecutive_failures = 0
                  /\ ~tasks'[i].is_running
            /\ current_task_index' = None
            /\ ~sched_is_paused'
      ]_vars

\* A step of execute_current_task_step in the scheduler harness.
StepOfScheduler == pc \in {"step", "step_lock", "action"} /\ pc' # pc

NotDue(m) == now - m.last_check_time < m.check_interval

\* A step that is the locked part of a sweep.
SweepScanStep == pc = "sweep_lock" /\ pc' # "sweep_lock"

\* C15: during a sweep, a monitor for which now - last_check_time < check_interval
\* is skipped: its handler is not invoked and its last_check_time and
\* last_match_time stay unchanged, even if its pattern would match the frame.
C15_NotDueMonitorSkipped ==
    [][ SweepScanStep =>
            \A i \in 1..Len(global_monitors) :
                NotDue(global_monitors[i]) =>
                    /\ global_monitors'[i] = global_monitors[i]
                    /\ handling' # global_monitors[i].id
      ]_vars

\* A sweep has the lock while an active monitor that is not due has a pattern
\* that matches the frame.
C15_Witness ==
    /\ pc = "sweep_lock"
    /\ mon_lock = "free"
    /\ \E i \in 1..Len(global_monitors) :
          /\ global_monitors[i].is_active
          /\ NotDue(global_monitors[i])
          /\ HasMatchingPattern(global_monitors[i], screen_image)

\* A step that is a whole get_screen_image call, for the full frame or a region.
FullRequestStep ==
    /\ pc = "image" /\ pc' = "image_done"
    /\ image_call'.op = "get_screen_image"
    /\ image_call'.region = NoValue

RegionRequestStep ==
    /\ pc = "image" /\ pc' = "image_done"
    /\ image_call'.op = "get_screen_image"
    /\ image_call'.region # NoValue

CacheUnchanged ==
    /\ last_screen_image' = last_screen_image
    /\ last_full_screen_time' = last_full_screen_time

CacheReplaced ==
    /\ last_screen_image' = FullFrame(now)
    /\ last_full_screen_time' = now

\* What a full-frame request does when it reuses the cache (reuse) and when it
\* does not: a capture is made and, when it succeeds, cached and returned.
FullRequestReuses(reuse) ==
    IF reuse
    THEN /\ image_call'.captured = "none"
         /\ image_call'.frame = last_screen_image
         /\ CacheUnchanged
    ELSE /\ image_call'.captured # "none"
         /\ image_call'.grab = "ok" =>
               /\ CacheReplaced
               /\ image_call'.frame = FullFrame(now)

\* C16 as stated: a full-frame get_screen_image(force_refresh=false) returns the
\* cached frame without a new capture exactly when a cached frame exists and
\* now - last_full_screen_time < screen_refresh_interval; otherwise, and always
\* when force_refresh is true, it takes a new capture and replaces the cached
\* frame and its timestamp.
C16_ReuseWhileYoungerThanInterval ==
    [][ FullRequestStep =>
            FullRequestReuses(/\ ~image_call'.force
                              /\ last_screen_image # NoImage
                              /\ now - last_full_screen_time < screen_refresh_interval)
      ]_vars

\* C16, amended: the cached frame is reused exactly when it exists and
\* now - last_full_screen_time <= screen_refresh_interval; otherwise, and always
\* when force_refresh is true, a new capture is taken and, when it succeeds,
\* replaces the cached frame and its timestamp.
C16_ReuseUpToInterval ==
    [][ FullRequestStep =>
            FullRequestReuses(/\ ~image_call'.force
                              /\ last_screen_image # NoImage
                              /\ now - last_full_screen_time <= screen_refresh_interval)
      ]_vars

\* A full-frame request was answered from a cache exactly as old as the interval.
C16_Witness ==
    /\ pc = "image_done"
    /\ image_call.op = "get_screen_image"
    /\ image_call.region = NoValue
    /\ image_call.captured = "none"
    /\ image_call.frame = last_screen_image
    /\ screen_refresh_interval > 0
    /\ now - last_full_screen_time = screen_refresh_interval

\* C17: a region request is answered with the crop of the cached full frame only
\* when that frame is fresh; when the cached frame is stale or absent the call
\* triggers a new full capture that replaces the cache; so a region result never
\* shows content older than the refresh window and always equals the crop of the
\* current cached full frame.
C17_RegionFromFreshFrameOnly ==
    [][ (RegionRequestStep /\ ~image_call'.force /\ image_call'.grab = "ok") =>
            /\ image_call'.captured = "none" =>
                  /\ last_screen_image # NoImage
                  /\ now - last_full_screen_time <= screen_refresh_interval
            /\ (\/ last_screen_image = NoImage
                \/ now - last_full_screen_time > screen_refresh_interval) =>
                  /\ image_call'.captured = "full"
                  /\ CacheReplaced
            /\ now - image_call'.frame.shot <= screen_refresh_interval
            /\ image_call'.frame = Crop(last_screen_image', image_call'.region)
      ]_vars

\* A step that is a whole find_template call.
FindTemplateStep ==
    /\ pc = "image" /\ pc' = "image_done"
    /\ image_call'.op = "find_template"

\* The position in the score map of the k-th match a call returned: its centre
\* less half the template and the region's offset.
MatchPos(call, k) ==
    call.locations[k] - (call.width \div 2) - RegionX(call.region)

\* The positions of the score map that reach the threshold.
Qualifying(call) ==
    {i \in 1..Len(call.scores) : call.scores[i] >= call.threshold}

\* Two matches of a template of width w whose bounding boxes share no column.
Apart(p, q, w) == p + w <= q \/ q + w <= p

\* C18: for every score map, threshold and max_results, find_template returns at
\* most max_results matches, each with score >= threshold, in descending score
\* order, no two with overlapping template bounding boxes; with max_results = 3
\* and exactly 2 qualifying non-overlapping matches it returns exactly those 2.
C18_MatchesBestFirstNoOverlap ==
    [][ (/\ FindTemplateStep
         /\ image_call'.template = "loaded"
         /\ image_call'.frame # NoImage
         /\ image_call'.match = "ok") =>
            LET call == image_call'
                n == Len(call.locations)
            IN /\ n <= call.max_results
               /\ \A k \in 1..n : call.scores[MatchPos(call, k)] >= call.threshold
               /\ \A k \in 1..n : \A l \in (k + 1)..n :
                     /\ call.scores[MatchPos(call, k)] >= call.scores[MatchPos(call, l)]
                     /\ Apart(MatchPos(call, k), MatchPos(call, l), call.width)
               /\ (/\ call.max_results = 3
                   /\ Cardinality(Qualifying(call)) = 2
                   /\ \A p, q \in Qualifying(call) : p # q => Apart(p, q, call.width)) =>
                     /\ n = 2
                     /\ {MatchPos(call, k) : k \in 1..n} = Qualifying(call)
      ]_vars

\* C19: find_template never raises: when the template cannot be loaded or the
\* capture fails it returns an empty result, get_screen_image returns a nil
\* frame on capture failure, and in both cases the cached full frame and its
\* timestamp are left unchanged.
C19_FailuresLeaveCacheAlone ==
    [][ /\ (/\ FindTemplateStep
            /\ \/ image_call'.template = "unloadable"
               \/ image_call'.captured = "failed") =>
               /\ image_call'.locations = <<>>
               /\ CacheUnchanged
        /\ (/\ pc = "image" /\ pc' = "image_done"
            /\ image_call'.op = "get_screen_image"
            /\ image_call'.captured = "failed") =>
               /\ image_call'.frame = NoImage
               /\ CacheUnchanged
      ]_vars

\* find_template found the cached frame stale, the capture failed, and the call
\* came back empty with the old frame still cached.
C19_Witness ==
    /\ pc = "image_done"
    /\ image_call.op = "find_template"
    /\ image_call.template = "loaded"
    /\ image_call.captured = "failed"
    /\ image_call.locations = <<>>
    /\ last_screen_image # NoImage
    /\ now - last_full_screen_time > screen_refresh_interval

\* The command texts that match no known command: unknown words, a known
\* command in another spelling or with something appended, and position commands
\* whose number is missing, not a number, or outside 1..6.
Unrecognised ==
    {"dance", "Pause System", "pause system now", "", "enable position",
     "enable position x", "enable position 0", "enable position 7",
     "disable position 7", "disable position -1"}

\* A step in which _on_command handled a command.
CommandStep == command_result' # command_result \/ clientVars' # clientVars

\* C20: for every inbound command that matches no known command (including a
\* position number outside 1..6 or a non-numeric one) the client replies with
\* success = false (the reply is emitted whenever the client is connected and
\* authenticated) and sets no control signal: the event flags and the
\* position, job-removal and chat slots are unchanged.
C20_UnknownCommandRejected ==
    [][ (CommandStep /\ command_result'.command \in Unrecognised) =>
            /\ command_result'.success = FALSE
            /\ command_result'.emitted = (connected /\ authenticated)
            /\ UNCHANGED clientVars
      ]_vars

\* "enable position 7" was answered with success = false while a pause request
\* was waiting, and the position slot stayed empty.
C20_Witness ==
    /\ command_result.command = "enable position 7"
    /\ command_result.success = FALSE
    /\ command_result.emitted
    /\ events["system_pause"]
    /\ ~position_control.active

\* A step in which execute_current_task_step, holding the lock, selects a task
\* or hands the current one to _execute_task.
SelectsOrExecutes ==
    /\ pc = "step_lock"
    /\ \/ pc' = "action"
       \/ \E i \in 1..Len(tasks) : ~tasks[i].is_running /\ tasks'[i].is_running

\* C21: no unit of work starts while the scheduler is paused: under any
\* interleaving of pause_scheduler() from another thread with
\* execute_current_task_step(), once pause_scheduler() has returned no task is
\* selected or executed until resume_scheduler() or reset() is called.
C21_NoWorkStartsWhilePaused ==
    [][ sched_is_paused => ~SelectsOrExecutes ]_vars

\* The unit of work of a task, or the handler of a monitor, is executing.
UnitOfWorkExecuting == pc = "action"
HandlerExecuting == pc = "handler"

\* C22: the scheduler mutex and the monitor mutex are never held while a task's
\* unit of work or a monitor's handler is executing: an administrative call
\* from another thread (pause_scheduler, pause_global_monitoring, ...) can
\* complete before the running unit of work or handler returns.
C22_LocksFreeDuringWork ==
    /\ UnitOfWorkExecuting =>
          /\ sched_lock = "free"
          /\ ENABLED pause_scheduler
    /\ HandlerExecuting =>
          /\ mon_lock = "free"
          /\ ENABLED pause_global_monitoring

\* A step of the orchestration thread: pc is its position in _main_loop, and
\* every statement of the loop moves it.
OrchestratorStep == pc' # pc

\* Task, scheduler, monitor or host-process execution state is written.
ExecutionStateWritten ==
    \/ tasks' # tasks
    \/ current_task_index' # current_task_index
    \/ sched_is_paused' # sched_is_paused
    \/ global_monitors' # global_monitors
    \/ mon_is_paused' # mon_is_paused
    \/ game' # game

\* C23: the orchestration thread is the only writer of Task, scheduler, Monitor
\* and host-process execution state: the hotkey thread, the remote-command
\* listener and the status-surface thread only publish control signals or read
\* snapshots and never invoke a scheduler, monitor or process-manager mutation
\* method directly.
C23_OrchestratorOnlyWriter ==
    [][ ExecutionStateWritten => OrchestratorStep ]_vars

\* C26: a scheduler pause requested by the operator with the toggle_scheduler
\* hotkey persists across ticks: after it, the orchestrator starts no task's
\* unit of work until the scheduler is resumed by an explicit operator or
\* remote request (toggle_scheduler, resume_all, reset).
C26_OperatorPausePersists ==
    [][ operator_pause =>
            /\ OrchestratorStep => sched_is_paused' = sched_is_paused
            /\ ~SelectsOrExecutes
      ]_vars

\* A step in which a thread issues the launch command of the game.
LaunchIssued == launch_flip' # launch_flip

\* C27: the host process is launched at most once per not-running episode:
\* under any interleaving of restart_game() on the status-surface thread with
\* the orchestrator's poll and NotRunning -> start branch, start_game never
\* issues a second launch command while a launch is in progress or the process
\* is already running.
C27_NoSecondLaunch ==
    [][ LaunchIssued => ui_pc # "starting" ]_vars


\* C24: a SystemResume published remotely while the system is globally paused is
\* eventually consumed and clears the global pause, as long as the orchestrator
\* keeps ticking, with no hotkey or status-surface action.
ResumePublishedWhilePaused == is_paused /\ events["system_resume"]
C24_RemoteResumeEventuallyClearsPause == ResumePublishedWhilePaused ~> ~is_paused
\* C25: no task starves.  Under repeated step() on an un-paused scheduler with no
\* monitor preemption, every un-paused task whose interval has elapsed is
\* eventually selected, also when a task of higher priority has interval 0.
DueTask(i) == i <= Len(tasks) /\ should_run(tasks[i], now)
SelectedTask(i) == i <= Len(tasks) /\ tasks[i].is_running
C25_EveryDueTaskEventuallySelected ==
    \A i \in 1..MaxTasks : DueTask(i) ~> SelectedTask(i)
\* C28: in a tick in which the orchestrator has acted on a control signal the
\* remainder of the tick is skipped: no foreground assurance, no monitor sweep
\* and no scheduler step is performed in that tick.
ActedOnSignal == tick.acted # NoValue
RemainderOfTick ==
    /\ pc \in {"foreground", "sweep", "sweep_lock", "step", "step_lock"}
    /\ pc' # pc
C28_SignalTickSkipsRemainder == [][ ActedOnSignal => ~RemainderOfTick ]_vars
\* C30: whenever the scheduler's lock is free the current slot is empty and no
\* task has is_running set; get_current_task seen between steps is None, and a
\* skip_current_task from another thread, which runs only once it has the lock,
\* finds no current task and returns False: it leaves the scheduler as it was.
SkipStep == tasks' # tasks \/ current_task_index' # current_task_index
C30_IdleBetweenSteps ==
    /\ [](sched_lock = "free" =>
             /\ current_task_index = None
             /\ \A i \in 1..Len(tasks) : ~tasks[i].is_running
             /\ get_current_task = None)
    /\ [][ skip_current_task => ~SkipStep ]_vars
C30_Witness ==
    /\ sched_lock = "free"
    /\ pc = "step"
    /\ \E i \in 1..Len(tasks) : tasks[i].last_execution_time = now
    /\ ENABLED skip_current_task
\* C29: cancellation is cooperative.  A skip_current_task, restart_task or reset
\* issued from another thread while a unit of work executes never interrupts it:
\* the scheduler's state stays as it is until the unit of work has returned and
\* its outcome is recorded, the request takes effect only after that, and its
\* effect is in place before the next step selects a task.
CancelTakesEffect == cancel_request # NoCancel /\ cancel_request' = NoCancel
NextStepSelects == pc = "step_lock" /\ pc' # "step_lock"
C29_CooperativeCancellation ==
    [][ /\ (pc = "action" /\ pc' = "action") => schedVars' = schedVars
        /\ CancelTakesEffect =>
              /\ pc # "action"
              /\ current_task_index = None
              /\ \A i \in 1..Len(tasks) : ~tasks[i].is_running
        /\ NextStepSelects => cancel_request = NoCancel
      ]_vars
\* C31: after step() has executed a unit of work, whatever its outcome, the current
\* slot is empty and the task's running flag is false; consecutive_failures is 0
\* after a success and exactly one more than before after a failure return or an
\* exception, and the exception does not leave step(): the caller goes on.
UnitOfWorkReturns == pc = "action" /\ pc' # "action"
C31_OutcomeRecordedSlotCleared ==
    [][ UnitOfWorkReturns =>
          LET i == current_task_index IN
            /\ pc' = "step"
            /\ current_task_index' = None
            /\ ~tasks'[i].is_running
            /\ action_result' = "ok" => tasks'[i].consecutive_failures = 0
            /\ action_result' \in {"fail", "raise"} =>
                  tasks'[i].consecutive_failures = tasks[i].consecutive_failures + 1
      ]_vars
C31_Witness ==
    /\ pc = "step"
    /\ action_result = "raise"
    /\ current_task_index = None
    /\ \E i \in 1..Len(tasks) : tasks[i].consecutive_failures = 2
\* C32: at the start of a tick the orchestrator's reaction is a function of the
\* polled state alone.  NOT_RUNNING: start is invoked (the launch command is
\* issued).  CRASH or FROZEN, and REMOTE_LOGIN: the restart path is invoked (the
\* process is closed and launched again).  MAINTENANCE: the scheduler is paused
\* and the drain, the sweep and the scheduler step of the tick are skipped.
\* RUNNING_NORMAL: the scheduler is left un-paused.  Any other state: no process
\* action, and the scheduler's pause flag is unchanged.
ReactionStep == pc = "poll" /\ pc' = "pause_check"
RestOfTick ==
    /\ pc \in {"signals", "sweep", "sweep_lock", "step", "step_lock"}
    /\ pc' # pc
RuntimeExceeded ==
    /\ max_runtime > 0
    /\ game.start_time # None
    /\ now - game.start_time > max_runtime
C33_RuntimeExceededEventuallyRestarted ==
    (polled = "RUNNING_IDLE" /\ RuntimeExceeded) ~> ~RuntimeExceeded

\* ========================================== the duty signal, by statement
\* ControlClient._toggle_position runs on the socket thread and
\* check_position_control on the main loop's thread; neither takes a lock, so the
\* statements of the two interleave.
MaxToggles == 2

DutyPositions == {PositionId(1), PositionId(2)}

dutyRest ==
    <<schedVars, monVars, screen_image, detectorVars, linkVars, operator_pause, ui_pc,
      launch_flip, cancel_request, action_result, polled, forcer, is_detection_paused,
      pause_requested, events, remove_job_info, chat_info, gameVars, engineVars, now,
      pc>>

\* _toggle_position: self.position_control["active"] = True
ToggleSetActive ==
    /\ toggler.at = "idle"
    /\ Cardinality(duty_log.published) < MaxToggles
    /\ \E position_id \in DutyPositions, enable \in BOOLEAN :
          /\ Pair(position_id, enable) \notin duty_log.published
          /\ toggler' = [at |-> "position_id", position_id |-> position_id,
                         enable |-> enable]
          /\ duty_log' = [duty_log EXCEPT
                             !.published = @ \cup {Pair(position_id, enable)}]
    /\ position_control' = [position_control EXCEPT !.active = TRUE]
    /\ UNCHANGED <<checker, dutyRest>>

\* _toggle_position: self.position_control["position_id"] = position_id
ToggleSetPositionId ==
    /\ toggler.at = "position_id"
    /\ position_control' = [position_control EXCEPT !.position_id = toggler.position_id]
    /\ toggler' = [toggler EXCEPT !.at = "enable"]
    /\ UNCHANGED <<checker, duty_log, dutyRest>>

\* _toggle_position: self.position_control["enable"] = enable, and the return
ToggleSetEnable ==
    /\ toggler.at = "enable"
    /\ position_control' = [position_control EXCEPT !.enable = toggler.enable]
    /\ toggler' = [toggler EXCEPT !.at = "idle"]
    /\ duty_log' = [duty_log EXCEPT !.owed = Pair(toggler.position_id, toggler.enable)]
    /\ UNCHANGED <<checker, dutyRest>>

\* check_position_control: if self.position_control["active"]: ... else the
\* return of (None, None)
CheckTestActive ==
    /\ checker.at = "idle"
    /\ checker' = IF position_control.active
                  THEN [checker EXCEPT !.at = "position_id"]
                  ELSE [checker EXCEPT !.returned = NoPair]
    /\ UNCHANGED <<position_control, toggler, duty_log, dutyRest>>

\* check_position_control: position_id = self.position_control["position_id"]
CheckReadPositionId ==
    /\ checker.at = "position_id"
    /\ checker' = [checker EXCEPT !.at = "enable",
                                  !.position_id = position_control.position_id]
    /\ UNCHANGED <<position_control, toggler, duty_log, dutyRest>>

\* check_position_control: enable = self.position_control["enable"]
CheckReadEnable ==
    /\ checker.at = "enable"
    /\ checker' = [checker EXCEPT !.at = "clear_active",
                                  !.enable = position_control.enable]
    /\ UNCHANGED <<position_control, toggler, duty_log, dutyRest>>

\* check_position_control: self.position_control["active"] = False
CheckClearActive ==
    /\ checker.at = "clear_active"
    /\ position_control' = [position_control EXCEPT !.active = FALSE]
    /\ checker' = [checker EXCEPT !.at = "clear_position_id"]
    /\ UNCHANGED <<toggler, duty_log, dutyRest>>

\* check_position_control: self.position_control["position_id"] = None
CheckClearPositionId ==
    /\ checker.at = "clear_position_id"
    /\ position_control' = [position_control EXCEPT !.position_id = NoValue]
    /\ checker' = [checker EXCEPT !.at = "clear_enable"]
    /\ UNCHANGED <<toggler, duty_log, dutyRest>>

\* check_position_control: self.position_control["enable"] = False, and
\* return position_id, enable
CheckClearEnable ==
    /\ checker.at = "clear_enable"
    /\ position_control' = [position_control EXCEPT !.enable = FALSE]
    /\ checker' = [checker EXCEPT !.at = "idle",
                                  !.returned = Pair(checker.position_id, checker.enable)]
    /\ duty_log' = [duty_log EXCEPT
                       !.owed = IF @ = Pair(checker.position_id, checker.enable)
                                THEN NoPair ELSE @]
    /\ UNCHANGED <<toggler, dutyRest>>

DutyNext ==
    \/ ToggleSetActive
    \/ ToggleSetPositionId
    \/ ToggleSetEnable
    \/ CheckTestActive
    \/ CheckReadPositionId
    \/ CheckReadEnable
    \/ CheckClearActive
    \/ CheckClearPositionId
    \/ CheckClearEnable

SpecDuty == InitClient /\ [][DutyNext]_vars

\* C34: the duty signal is neither torn nor lost.  What check_position_control
\* returns is (None, None) or the (id, enabled) pair of one _toggle_position call,
\* and when no call of either is in progress the last published pair has been
\* returned or is still pending in the slot.
C34_DutySignalNeitherTornNorLost ==
    /\ checker.returned \in {NoPair} \cup duty_log.published
    /\ (toggler.at = "idle" /\ checker.at = "idle" /\ duty_log.owed # NoPair) =>
          /\ position_control.active
          /\ Pair(position_control.position_id, position_control.enable) = duty_log.owed

\* ============================================= force_check_all, by statement
\* HotkeySystem.force_refresh runs on the hotkey thread: it takes a fresh frame
\* and calls MonitorManager.force_check_all, which saves the pause flag, clears
\* it, runs check_global_monitors and writes the saved value back.
forceRest ==
    <<schedVars, screen_image, detectorVars, linkVars, operator_pause, ui_pc,
      launch_flip, cancel_request, action_result, polled, toggler, checker, duty_log,
      is_detection_paused, pause_requested, clientVars, gameVars, engineVars, now, pc>>

\* force_check_all: original_pause_state = self.is_paused
ForceSave ==
    /\ forcer.at = "idle"
    /\ \E frame \in Frames :
          forcer' = [at |-> "clear", original_pause_state |-> mon_is_paused,
                     frame |-> frame, found |-> "none"]
    /\ UNCHANGED <<monVars, forceRest>>

\* force_check_all: self.is_paused = False
ForceClear ==
    /\ forcer.at = "clear"
    /\ mon_is_paused' = FALSE
    /\ forcer' = [forcer EXCEPT !.at = "test"]
    /\ UNCHANGED <<global_monitors, mon_lock, handling, sweep_result, handler_outcome,
                   mon_registered, forceRest>>

\* check_global_monitors inside force_check_all: the unlocked pause test
ForceSweepEntry ==
    /\ forcer.at = "test"
    /\ forcer' = IF mon_is_paused
                 THEN [forcer EXCEPT !.at = "restore", !.found = "false"]
                 ELSE [forcer EXCEPT !.at = "lock"]
    /\ UNCHANGED <<monVars, forceRest>>

\* check_global_monitors inside force_check_all, from taking the lock to the call
\* of a handler, to the return of False, or to a detector's exception, which
\* leaves force_check_all before its last statement.
ForceSweepScan ==
    /\ forcer.at = "lock"
    /\ mon_lock = "free"
    /\ LET scan == ScanMonitors(global_monitors, forcer.frame, now, 1) IN
       /\ global_monitors' = scan.mons
       /\ IF scan.hit # None
          THEN /\ handling' = scan.mons[scan.hit].id
               /\ mon_lock' = "forcer"
               /\ forcer' = [forcer EXCEPT !.at = "handler"]
          ELSE /\ UNCHANGED <<handling, mon_lock>>
               /\ forcer' = IF scan.raised
                            THEN [forcer EXCEPT !.at = "idle", !.found = "raised"]
                            ELSE [forcer EXCEPT !.at = "restore", !.found = "false"]
    /\ UNCHANGED <<mon_is_paused, sweep_result, handler_outcome, mon_registered,
                   forceRest>>

\* check_global_monitors inside force_check_all, from the handler's return to
\* its own: True whether the handler succeeded, failed or raised.
ForceSweepHandlerReturns ==
    /\ forcer.at = "handler"
    /\ \E result \in {"ok", "fail", "raise"} :
          forcer' = [forcer EXCEPT !.at = "restore", !.found = HandledResult(result)]
    /\ handling' = NoValue
    /\ mon_lock' = "free"
    /\ UNCHANGED <<global_monitors, mon_is_paused, sweep_result, handler_outcome,
                   mon_registered, forceRest>>

\* force_check_all: self.is_paused = original_pause_state, and the return
ForceRestore ==
    /\ forcer.at = "restore"
    /\ mon_is_paused' = forcer.original_pause_state
    /\ forcer' = [forcer EXCEPT !.at = "idle"]
    /\ UNCHANGED <<global_monitors, mon_lock, handling, sweep_result, handler_outcome,
                   mon_registered, forceRest>>

ForcedCheck ==
    \/ ForceSave
    \/ ForceClear
    \/ ForceSweepEntry
    \/ ForceSweepScan
    \/ ForceSweepHandlerReturns
    \/ ForceRestore

\* Between two forced checks monitors are registered, monitoring is paused or
\* resumed, and time passes; nothing else runs while a forced check is going on.
BetweenForcedChecks ==
    /\ forcer.at = "idle"
    /\ \/ MonAddMonitor
       \/ MonPause
       \/ MonResume
       \/ MonTick

ForceNext == ForcedCheck \/ BetweenForcedChecks

SpecForce == InitMon /\ [][ForceNext]_vars

ForceReturns == forcer.at # "idle" /\ forcer'.at = "idle"

\* C35: for every prior value p of the monitor pause flag, force_check_all runs
\* its sweep with the flag cleared and leaves with the flag equal to p again,
\* whatever the sweep found and also when a detector or a handler raised.
C35_ForcedCheckRestoresPauseFlag ==
    /\ [](forcer.at \in {"test", "lock", "handler"} => ~mon_is_paused)
    /\ [][ForceReturns => mon_is_paused' = forcer.original_pause_state]_vars

\* ------------------------------------------- force_check_all and the others
\* The hotkey thread is inside force_refresh while the main loop keeps sweeping
\* and a third thread (another hotkey callback, the status surface) pauses and
\* resumes monitoring.
InitRace ==
    /\ SchedInit
    /\ global_monitors = SortByPriorityDesc(EngineMonitors)
    /\ mon_is_paused = FALSE
    /\ mon_lock = "free"
    /\ handling = NoValue
    /\ sweep_result = "none"
    /\ handler_outcome = "none"
    /\ mon_registered = <<"remote_login_monitor">>
    /\ ClientInit
    /\ GameInit({0}, {"VPgame"})
    /\ EngineInit
    /\ OperatorInit
    /\ DetectorInit({1})
    /\ control_client = FALSE
    /\ screen_image = NoFrame
    /\ now = StartClock
    /\ pc = "capture"

raceRest ==
    <<schedVars, screen_image, detectorVars, linkVars, operator_pause, ui_pc,
      launch_flip, cancel_request, action_result, polled, toggler, checker, duty_log,
      forcer, is_detection_paused, clientVars, gameVars, engineVars, now, pc>>

\* pause_global_monitoring on another thread, with the request noted
RacePause ==
    /\ pause_global_monitoring
    /\ pause_requested' = TRUE
    /\ UNCHANGED raceRest

\* resume_global_monitoring on another thread, with the request noted
RaceResume ==
    /\ resume_global_monitoring
    /\ pause_requested' = FALSE
    /\ UNCHANGED raceRest

RaceNext ==
    \/ ForcedCheck
    \/ RacePause
    \/ RaceResume
    \/ MonCapture
    \/ MonSweepEntry
    \/ MonSweepScan
    \/ MonSweepHandlerReturns

SpecRace == InitRace /\ [][RaceNext]_vars

RegularSweepTested == pc = "sweep" /\ pc' # "sweep"

\* C36: a pause_global_monitoring or resume_global_monitoring that completed on
\* another thread while force_check_all was in progress is not overwritten by the
\* restoring assignment, and a regular sweep that starts while monitoring is
\* paused stops at its pause test, also while a force_check_all is in progress.
C36_ForcedCheckKeepsConcurrentPause ==
    /\ [][(forcer.at = "restore" /\ forcer'.at = "idle") =>
             mon_is_paused' = pause_requested']_vars
    /\ [][(RegularSweepTested /\ pause_requested) => pc' = "capture"]_vars

\* ================================================ the detection hotkey
\* The operator's callbacks on a running scheduler: each is one call, taken
\* between two statements of the orchestrator's step.
detectionRest ==
    <<schedVars, screen_image, detectorVars, linkVars, operator_pause, ui_pc,
      launch_flip, cancel_request, action_result, polled, toggler, checker, duty_log,
      forcer, pause_requested, clientVars, gameVars, engineVars, now, pc>>

\* HotkeySystem.toggle_detection
HotkeyToggleDetection ==
    /\ IF is_detection_paused
       THEN resume_global_monitoring /\ is_detection_paused' = FALSE
       ELSE pause_global_monitoring /\ is_detection_paused' = TRUE
    /\ UNCHANGED detectionRest

\* CoreEngine.pause_all, called directly
EnginePauseAll ==
    /\ pause_all
    /\ UNCHANGED <<screen_image, detectorVars, linkVars, threadVars, clientVars,
                   gameVars, is_running, control_client, stop_cause, tick, now, pc>>

\* CoreEngine.resume_all, called directly
EngineResumeAll ==
    /\ resume_all
    /\ UNCHANGED <<screen_image, detectorVars, linkVars, threadVars, clientVars,
                   gameVars, is_running, control_client, stop_cause, tick, now, pc>>

DetectionNext ==
    \/ SchedStepEntry
    \/ SchedStepLocked
    \/ SchedStepActionReturns
    \/ SchedTick
    \/ HotkeyToggleDetection
    \/ TogglePause
    \/ HotkeyEmergencyStop
    \/ EnginePauseAll
    \/ EngineResumeAll

SpecDetection == InitRotation /\ [][DetectionNext]_vars

\* C37: after any sequence of toggle_detection, toggle_all, emergency_stop,
\* pause_all and resume_all, HotkeySystem.is_detection_paused equals
\* MonitorManager.is_paused, so every toggle_detection press flips the monitor
\* pause state.
C37_DetectionFlagMirrorsMonitorPause ==
    /\ [](is_detection_paused = mon_is_paused)
    /\ [][is_detection_paused' # is_detection_paused =>
             mon_is_paused' # mon_is_paused]_vars

\* ================================================ the monitor registry
MonitorIds(ms) == {ms[i].id : i \in 1..Len(ms)}

\* C38: after any sequence of add_global_monitor and remove_global_monitor the
\* monitor names are unique and the list is ordered by priority descending, with
\* equal priorities in registration order; no call adds a monitor under a name
\* that is already registered.
C38_MonitorRegistryUniqueAndOrdered ==
    /\ [](/\ \A i, j \in 1..Len(global_monitors) :
                i < j => /\ global_monitors[i].id # global_monitors[j].id
                         /\ MonitorBefore(global_monitors[i], global_monitors[j])
          /\ MonitorIds(global_monitors) = {mon_registered[i] :
                                               i \in 1..Len(mon_registered)})
    /\ [][Len(global_monitors') > Len(global_monitors) =>
             /\ Len(global_monitors') = Len(global_monitors) + 1
             /\ \E n \in MonitorNames \ MonitorIds(global_monitors) :
                    MonitorIds(global_monitors') = MonitorIds(global_monitors) \cup {n}]_vars

\* Two monitors of equal priority, the one registered first in front, with a
\* sweep made since the first was registered.
C38_Witness ==
    /\ Len(global_monitors) = 2
    /\ global_monitors[1].priority = global_monitors[2].priority
    /\ mon_registered = <<"maintenance_monitor", "remote_login_monitor">>
    /\ global_monitors[1].id = "maintenance_monitor"
    /\ global_monitors[2].last_check_time = 0
    /\ global_monitors[1].last_check_time > 0

\* ================================================ the states a poll returns
PolledStates == {"NOT_RUNNING", "FROZEN", "RUNNING_IDLE", "RUNNING_NORMAL"}

\* C39: a check_game_status call that returns, returns NOT_RUNNING, FROZEN,
\* RUNNING_IDLE or RUNNING_NORMAL and nothing else, so the value the orchestrator
\* branches on is never MAINTENANCE, REMOTE_LOGIN or CRASH (nor STARTING, CLOSING
\* or UNKNOWN), whatever state close_game, start_game or restart_game left.
C39_PollReturnsFourStates ==
    /\ [][(PollStep /\ poll_result' # "raised") =>
             /\ poll_result' \in PolledStates
             /\ game'.current_status = poll_result']_vars
    /\ [](poll_result \notin {"MAINTENANCE", "REMOTE_LOGIN", "CRASH", "STARTING",
                              "CLOSING", "UNKNOWN"})

\* A poll has returned FROZEN for a process that does not respond.
C39_Witness ==
    /\ pc = "handle"
    /\ game_call.op = "check_game_status"
    /\ poll_result = "FROZEN"
    /\ ~poll_facts.responding
    /\ game.process_id # None

\* ================================================ the refresh signal
RefreshConsumed == DrainStep /\ tick'.acted = "refresh_detection"

\* C40: when the orchestrator consumes a refresh_detection signal, the tick that
\* consumed it goes on without an exception (the drain returns and the tick
\* continues with the foreground assurance), and the forced monitor check, a fresh
\* full capture followed by force_check_all, has been started on its thread.
C40_RefreshStartsForcedCheck ==
    [][RefreshConsumed => /\ pc' = "foreground"
                          /\ forcer'.at # "idle"]_vars
====
